---------------------------- MODULE Spec2Model ----------------------------
(***************************************************************************)
(* A model of the CHIP-8 emulator core (src/src/core.rs) and of the parts  *)
(* of its controller (src/src/gui.rs) that create, command and replace     *)
(* engine instances.                                                       *)
(*                                                                         *)
(* An engine instance is a record: the CoreState the scheduler thread      *)
(* owns, the position of the thread in Core::run, the command queue        *)
(* (crossbeam_channel::unbounded) and the snapshot channel                 *)
(* (single_value_channel).  Options are encoded as sequences: None is <<>> *)
(* and Some(v) is <<v>>.                                                   *)
(***************************************************************************)
EXTENDS Integers, Sequences, FiniteSets, TLC

(***************************************************************************)
(* Bounds of the model.                                                    *)
(***************************************************************************)
\* engine instances the controller may create in one behaviour
MaxCores == 2
\* controller actions (commands sent, input changes, resets) in one behaviour
MaxGuiActions == 2
\* commands and input changes of the arbitrary controller in one behaviour
MaxSends == 2
\* frames an engine may complete (current_frame is a u32 counter)
MaxFrames == 2
\* iterations of Core::run the timing specification follows
MaxIterations == 3

(***************************************************************************)
(* Program constants.                                                      *)
(***************************************************************************)
BASE_WIDTH == 64
BASE_HEIGHT == 32
MemSize == 4096
RomStart == 512
DefaultOpcodesPerFrame == 20
\* FPS, and 1000.0 / desired_fps milliseconds in time units of 1/60 ms
FPS == 60
MinFrameTime == 1000

None == <<>>
Some(v) == <<v>>
IsSome(o) == o # <<>>
Unwrap(o) == o[1]

(***************************************************************************)
(* Fixed-width arithmetic and bit operations on naturals.                  *)
(***************************************************************************)
U8(n) == n % 256
U16(n) == n % 65536

RECURSIVE BitAnd(_, _)
BitAnd(a, b) ==
    IF a = 0 \/ b = 0 THEN 0
    ELSE ((a % 2) * (b % 2)) + 2 * BitAnd(a \div 2, b \div 2)

RECURSIVE BitOr(_, _)
BitOr(a, b) ==
    IF a = 0 THEN b
    ELSE IF b = 0 THEN a
    ELSE (IF (a % 2) + (b % 2) > 0 THEN 1 ELSE 0) + 2 * BitOr(a \div 2, b \div 2)

RECURSIVE BitXor(_, _)
BitXor(a, b) ==
    IF a = 0 THEN b
    ELSE IF b = 0 THEN a
    ELSE (((a % 2) + (b % 2)) % 2) + 2 * BitXor(a \div 2, b \div 2)

(***************************************************************************)
(* The memory array [u8; 4096], written as the function from the addresses *)
(* that hold a non-zero byte to that byte: every other address of          *)
(* 0..MemSize-1 holds 0.  Two arrays are equal exactly when their          *)
(* functions are.                                                          *)
(***************************************************************************)
ZeroMemory == [a \in {} |-> 0]

MemRead(memory, address) ==
    IF address \in DOMAIN memory THEN memory[address] ELSE 0

MemWrite(memory, address, value) ==
    IF value = 0
    THEN [a \in DOMAIN memory \ {address} |-> memory[a]]
    ELSE [a \in DOMAIN memory \cup {address} |->
            IF a = address THEN value ELSE memory[a]]

\* memory[start..start + Len(bytes)].copy_from_slice(bytes)
copy_from_slice(memory, start, bytes) ==
    LET range == start..(start + Len(bytes) - 1)
        set   == {a \in range : bytes[a - start + 1] # 0}
    IN  [a \in (DOMAIN memory \ range) \cup set |->
            IF a \in range THEN bytes[a - start + 1] ELSE memory[a]]

(***************************************************************************)
(* The built-in font, load_font's table.                                   *)
(***************************************************************************)
Font ==
    << 96, 208, 144, 176,  96,     \* 0
       32,  96,  32,  32, 112,     \* 1
       96, 144,  32,  64, 240,     \* 2
       96, 144,  32, 144,  96,     \* 3
       32,  96, 160, 240,  32,     \* 4
      240, 128, 224,  16, 224,     \* 5
       96, 128, 224, 144,  96,     \* 6
      240,  16,  32,  64,  64,     \* 7
       96, 144,  96, 144,  96,     \* 8
       96, 144, 112,  16,  96,     \* 9
       96, 144, 240, 144, 144,     \* A
      224, 144, 224, 144, 224,     \* B
       96, 128, 128, 128,  96,     \* C
      224, 144, 144, 144, 224,     \* D
      240, 128, 224, 128, 240,     \* E
      240, 128, 224, 128, 128 >>   \* F

(***************************************************************************)
(* CoreState::new followed by Core::initialise (load_font).  The image is  *)
(* the set of the pixels <<x, y>> that are Rgba::WHITE.                     *)
(***************************************************************************)
CoreState_new ==
    [ image                 |-> {},
      current_frame         |-> 0,
      actual_frame_time     |-> 0,
      frame_time_with_sleep |-> 0,
      fps                   |-> 0,
      running               |-> FALSE,
      step_frame            |-> FALSE,
      error                 |-> None,
      memory                |-> ZeroMemory,
      v_registers           |-> [r \in 0..15 |-> 0],
      i_register            |-> 0,
      program_counter       |-> 512,
      call_stack            |-> <<>>,
      delay_timer           |-> 0,
      sound_timer           |-> 0,
      rom_name              |-> None,
      rom_size              |-> None,
      opcodes_per_frame     |-> DefaultOpcodesPerFrame,
      exit_requested        |-> FALSE ]

load_font(s) == [s EXCEPT !.memory = copy_from_slice(@, 0, Font)]


(***************************************************************************)
(* The file system LoadRom reads from.  A ROM file is a short program      *)
(* followed by a fill byte up to its length; fs_read gives Some(bytes), or *)
(* None when fs::read fails.                                               *)
(***************************************************************************)
RomBytes(prog, len, fill) ==
    [k \in 1..len |-> IF k <= Len(prog) THEN prog[k] ELSE fill]

Path(name) == [dir |-> "roms", name |-> name]

\* F10A 00EE: wait for a key, then return with an empty call stack
KeyWaitRom == RomBytes(<<241, 10, 0, 238>>, 4, 0)
\* 6005 1200 (V0 := 5, jump back to 0x200), zeros and a last byte: the
\* largest ROM that fits
FullRom ==
    [RomBytes(<<96, 5, 18, 0>>, MemSize - RomStart, 0)
        EXCEPT ![MemSize - RomStart] = 171]
\* one byte more than fits
BigRom ==
    [RomBytes(<<18, 0>>, MemSize - RomStart + 1, 0)
        EXCEPT ![MemSize - RomStart + 1] = 205]

\* 6102 F115 6101 F118: delay_timer := 2, sound_timer := 1
TimersRom == RomBytes(<<97, 2, 241, 21, 97, 1, 241, 24>>, 8, 0)

\* 6103 F115 8008 6105: delay_timer := 3, then an opcode execute_opcode_8
\* does not know, then V1 := 5
InvalidRom == RomBytes(<<97, 3, 241, 21, 128, 8, 97, 5>>, 8, 0)

RomFiles == {"keywait.ch8", "full.ch8", "big.ch8", "timers.ch8", "invalid.ch8"}
Paths == {Path(n) : n \in RomFiles \cup {"missing.ch8"}}

fs_read(path) ==
    CASE path.name = "keywait.ch8" -> Some(KeyWaitRom)
      [] path.name = "full.ch8"    -> Some(FullRom)
      [] path.name = "big.ch8"     -> Some(BigRom)
      [] path.name = "timers.ch8"  -> Some(TimersRom)
      [] path.name = "invalid.ch8" -> Some(InvalidRom)
      [] OTHER                     -> None

file_name(path) == path.name

(***************************************************************************)
(* Event, the commands of the controller.                                  *)
(***************************************************************************)
OpcodesPerFrameValues == {0, 2}

Events ==
    {[type |-> "ChangeRunning", running |-> b] : b \in BOOLEAN}
    \cup {[type |-> "StepFrame"]}
    \cup {[type |-> "LoadRom", path |-> p] : p \in Paths}
    \cup {[type |-> "ChangeOpcodesPerFrame", opcodes_per_frame |-> k] :
            k \in OpcodesPerFrameValues}
    \cup {[type |-> "Exit"]}

(***************************************************************************)
(* Core::create_and_run: a fresh engine instance.  `status` is the state   *)
(* of the scheduler thread ("alive", "exited" after run returned,          *)
(* "panicked" with the place in `panic`), `at` its position in Core::run: "events" (in the loop of   *)
(* handle_events, which the new thread reaches first), "frame" (before     *)
(* step_frame), "wait_key" (in wait_for_key_press) or "tail" (after the    *)
(* frame).  `events` is the command                                        *)
(* queue; `slot` the value an update left for the receiver, `latest` the   *)
(* value the receiver holds (None once the controller dropped it).         *)
(* `executed` counts the calls of execute_opcode and `published` is the    *)
(* value last handed to update: history variables the code does not have.  *)
(***************************************************************************)
Core_new ==
    LET state == CoreState_new
    IN  [ state         |-> load_font(state),
          status        |-> "alive",
          panic         |-> "",
          at            |-> "events",
          event_handled |-> FALSE,
          running       |-> FALSE,
          step_frame    |-> FALSE,
          opcodes_left  |-> 0,
          wait_x        |-> 0,
          sleep_error_millis |-> 0,
          events        |-> <<>>,
          slot          |-> None,
          latest        |-> Some(state),
          executed      |-> 0,
          published     |-> state ]

\* an index out of bounds or an integer overflow
Panic(e) == [e EXCEPT !.status = "panicked", !.panic = "index or overflow"]

\* update_gui with a slot that keeps an unread value instead of replacing it
update_gui_keep_unread(e) ==
    IF e.latest = None
    THEN [e EXCEPT !.status = "panicked", !.panic = "update_gui"]
    ELSE [e EXCEPT !.slot = IF IsSome(e.slot) THEN e.slot ELSE Some(e.state),
                   !.published = e.state]

(***************************************************************************)
(* update_gui: Updater::update(state.clone()).unwrap().  The update fails, *)
(* and unwrap panics, when the receiver was dropped.                       *)
(***************************************************************************)
update_gui(e) ==
    IF e.latest = None
    THEN [e EXCEPT !.status = "panicked", !.panic = "update_gui"]
    ELSE [e EXCEPT !.slot = Some(e.state), !.published = e.state]

core_error(e, error) ==
    update_gui([e EXCEPT !.state.error = Some(error)])

\* load_game with a size check that also rejects a ROM that just fits
load_game_exclusive_limit(e, path) ==
    CHOOSE after \in
      { IF read = None
        THEN core_error(e, [kind |-> "InvalidRom", path |-> path])
        ELSE
          LET rom == Unwrap(read)
              e1  == [e EXCEPT !.state.rom_name = Some(file_name(path)),
                               !.state.rom_size = Some(Len(rom))]
          IN  IF Len(rom) >= 4096 - 512
              THEN core_error(e1, [kind |-> "RomTooLarge", path |-> path,
                                   size |-> Len(rom), allowed |-> 4096 - 512])
              ELSE [e1 EXCEPT !.state.memory = copy_from_slice(@, 512, rom)]
          : read \in {fs_read(path)} } : TRUE

(***************************************************************************)
(* load_game.  (What fs::read returned is bound as the element of a        *)
(* singleton set, which makes it a value that is computed once.)           *)
(***************************************************************************)
\* load_game that copies the ROM into a fresh memory
load_game_fresh_memory(e, path) ==
    CHOOSE after \in
      { IF read = None
        THEN core_error(e, [kind |-> "InvalidRom", path |-> path])
        ELSE
          LET rom == Unwrap(read)
              e1  == [e EXCEPT !.state.rom_name = Some(file_name(path)),
                               !.state.rom_size = Some(Len(rom))]
          IN  IF Len(rom) > 4096 - 512
              THEN core_error(e1, [kind |-> "RomTooLarge", path |-> path,
                                   size |-> Len(rom), allowed |-> 4096 - 512])
              ELSE [e1 EXCEPT !.state.memory =
                                  copy_from_slice(Core_new.state.memory, 512, rom)]
          : read \in {fs_read(path)} } : TRUE

load_game(e, path) ==
    CHOOSE after \in
      { IF read = None
        THEN core_error(e, [kind |-> "InvalidRom", path |-> path])
        ELSE
          LET rom == Unwrap(read)
              e1  == [e EXCEPT !.state.rom_name = Some(file_name(path)),
                               !.state.rom_size = Some(Len(rom))]
          IN  IF Len(rom) > 4096 - 512
              THEN core_error(e1, [kind |-> "RomTooLarge", path |-> path,
                                   size |-> Len(rom), allowed |-> 4096 - 512])
              ELSE [e1 EXCEPT !.state.memory = copy_from_slice(@, 512, rom)]
          : read \in {fs_read(path)} } : TRUE

(***************************************************************************)
(* One turn of the loop of handle_events: the match on a received event.   *)
(***************************************************************************)
handle_event(e, event) ==
    CASE event.type = "ChangeRunning" ->
            [e EXCEPT !.state.running = event.running]
      [] event.type = "StepFrame" ->
            [e EXCEPT !.state.step_frame = TRUE]
      [] event.type = "LoadRom" ->
            load_game(e, event.path)
      [] event.type = "ChangeOpcodesPerFrame" ->
            [e EXCEPT !.state.opcodes_per_frame = event.opcodes_per_frame]
      [] event.type = "Exit" ->
            [e EXCEPT !.state.running = FALSE, !.state.exit_requested = TRUE]

\* should_exit looking at one of its two conditions only
should_exit_on_request_only(e) == e.state.exit_requested
should_exit_on_error_only(e) == IsSome(e.state.error)

should_exit(e) == IsSome(e.state.error) \/ e.state.exit_requested


(***************************************************************************)
(* Memory and register access.  An index outside the array panics; the     *)
(* callers test MemOk before they read or write.                           *)
(***************************************************************************)
MemOk(address) == address < MemSize
read_mem(e, address) == MemRead(e.state.memory, address)
write_mem(e, address, value) ==
    [e EXCEPT !.state.memory = MemWrite(@, address, value)]
V(e, r) == e.state.v_registers[r]
SetV(e, r, value) == [e EXCEPT !.state.v_registers[r] = value]
SetPc(e, pc) == [e EXCEPT !.state.program_counter = pc]
\* skip_opcode moving the program counter by one byte
skip_opcode_one_byte(e) == SetPc(e, e.state.program_counter + 1)
skip_opcode(e) == SetPc(e, e.state.program_counter + 2)

\* the fields of an opcode
OpX(opcode) == (opcode \div 256) % 16
OpY(opcode) == (opcode \div 16) % 16
OpN(opcode) == opcode % 16
OpNN(opcode) == opcode % 256
OpNNN(opcode) == opcode % 4096

\* InvalidOpcode reporting the address after the opcode
InvalidOpcode_next_address(e, opcode) ==
    core_error(e, [kind |-> "InvalidOpcode", opcode |-> opcode,
                   address |-> e.state.program_counter])

InvalidOpcode(e, opcode) ==
    core_error(e, [kind |-> "InvalidOpcode", opcode |-> opcode,
                   address |-> e.state.program_counter - 2])

(***************************************************************************)
(* Key input, read from the egui context the controller and every engine   *)
(* share.  key_map is a fixed one-to-one table, so a key is named by its   *)
(* CHIP-8 number.                                                          *)
(***************************************************************************)
VARIABLE input

\* whether the build panics on integer overflow (debug) or wraps (release)
VARIABLE overflow_checks

\* the instruction under test of the single-instruction specification: its
\* opcode, the engine before it and whether it has been executed
VARIABLE op

\* the clock of the timing specification: the iterations of Core::run so
\* far, the sum of their lengths (frame_time_with_sleep), whether every
\* sleep_needed_millis was positive, and of the last iteration the measured
\* time, the sleep error it started with and the time slept
VARIABLE clock

env == <<input, overflow_checks, op, clock>>

\* is_key_down that looks at the low four bits of the key number
is_key_down_low_nibble(key) == (key % 16) \in input.keys_down

is_key_down(key) == key <= 15 /\ key \in input.keys_down

(***************************************************************************)
(* The instruction families.                                               *)
(***************************************************************************)
\* execute_opcode_0 reporting the address after the instruction
execute_opcode_0_address_after(e, opcode) ==
    CASE opcode = 224 -> [e EXCEPT !.state.image = {}]
      [] opcode = 238 ->
            IF e.state.call_stack # <<>>
            THEN LET n == Len(e.state.call_stack)
                 IN  [e EXCEPT !.state.program_counter = e.state.call_stack[n],
                               !.state.call_stack = SubSeq(e.state.call_stack, 1, n - 1)]
            ELSE core_error(e, [kind |-> "InvalidReturn",
                                address |-> e.state.program_counter])
      [] OTHER -> e

execute_opcode_0(e, opcode) ==
    CASE opcode = 224 -> [e EXCEPT !.state.image = {}]
      [] opcode = 238 ->
            IF e.state.call_stack # <<>>
            THEN LET n == Len(e.state.call_stack)
                 IN  [e EXCEPT !.state.program_counter = e.state.call_stack[n],
                               !.state.call_stack = SubSeq(e.state.call_stack, 1, n - 1)]
            ELSE core_error(e, [kind |-> "InvalidReturn",
                                address |-> e.state.program_counter - 2])
      [] OTHER -> e

execute_opcode_1(e, opcode) == SetPc(e, OpNNN(opcode))

\* execute_opcode_2 pushing the address of the call itself
execute_opcode_2_push_call_address(e, opcode) ==
    [e EXCEPT !.state.call_stack =
                  Append(e.state.call_stack, e.state.program_counter - 2),
              !.state.program_counter = OpNNN(opcode)]

execute_opcode_2(e, opcode) ==
    [e EXCEPT !.state.call_stack = Append(e.state.call_stack, e.state.program_counter),
              !.state.program_counter = OpNNN(opcode)]

execute_opcode_3(e, opcode) ==
    IF V(e, OpX(opcode)) = OpNN(opcode) THEN skip_opcode(e) ELSE e

execute_opcode_4(e, opcode) ==
    IF V(e, OpX(opcode)) # OpNN(opcode) THEN skip_opcode(e) ELSE e

execute_opcode_5(e, opcode) ==
    LET e1 == IF OpN(opcode) # 0 THEN InvalidOpcode(e, opcode) ELSE e
    IN  IF e1.status = "panicked" THEN e1
        ELSE IF V(e1, OpX(opcode)) = V(e1, OpY(opcode)) THEN skip_opcode(e1) ELSE e1

execute_opcode_6(e, opcode) == SetV(e, OpX(opcode), OpNN(opcode))

execute_opcode_7(e, opcode) ==
    SetV(e, OpX(opcode), U8(V(e, OpX(opcode)) + OpNN(opcode)))

\* execute_opcode_8 writing VF before VX
execute_opcode_8_flag_first(e, opcode) ==
    LET x  == OpX(opcode)
        y  == OpY(opcode)
        vx == V(e, x)
        vy == V(e, y)
        last_nibble == OpN(opcode)
    IN  CASE last_nibble = 0  -> SetV(e, x, vy)
          [] last_nibble = 1  -> SetV(SetV(e, 15, 0), x, BitOr(vx, vy))
          [] last_nibble = 2  -> SetV(SetV(e, 15, 0), x, BitAnd(vx, vy))
          [] last_nibble = 3  -> SetV(SetV(e, 15, 0), x, BitXor(vx, vy))
          [] last_nibble = 4  ->
                SetV(SetV(e, 15, IF vx + vy > 255 THEN 1 ELSE 0), x, U8(vx + vy))
          [] last_nibble = 5  ->
                SetV(SetV(e, 15, IF vx < vy THEN 0 ELSE 1), x, U8(vx - vy + 256))
          [] last_nibble = 6  ->
                SetV(SetV(e, 15, vx % 2), x, vx \div 2)
          [] last_nibble = 7  ->
                SetV(SetV(e, 15, IF vy < vx THEN 0 ELSE 1), x, U8(vy - vx + 256))
          [] last_nibble = 14 ->
                SetV(SetV(e, 15, (vx \div 128) % 2), x, U8(vx * 2))
          [] OTHER -> InvalidOpcode(e, opcode)

execute_opcode_8(e, opcode) ==
    LET x  == OpX(opcode)
        y  == OpY(opcode)
        vx == V(e, x)
        vy == V(e, y)
        last_nibble == OpN(opcode)
    IN  CASE last_nibble = 0  -> SetV(e, x, vy)
          [] last_nibble = 1  -> SetV(SetV(e, x, BitOr(vx, vy)), 15, 0)
          [] last_nibble = 2  -> SetV(SetV(e, x, BitAnd(vx, vy)), 15, 0)
          [] last_nibble = 3  -> SetV(SetV(e, x, BitXor(vx, vy)), 15, 0)
          [] last_nibble = 4  ->
                SetV(SetV(e, x, U8(vx + vy)), 15, IF vx + vy > 255 THEN 1 ELSE 0)
          [] last_nibble = 5  ->
                SetV(SetV(e, x, U8(vx - vy + 256)), 15, IF vx < vy THEN 0 ELSE 1)
          [] last_nibble = 6  ->
                SetV(SetV(e, x, vx \div 2), 15, vx % 2)
          [] last_nibble = 7  ->
                SetV(SetV(e, x, U8(vy - vx + 256)), 15, IF vy < vx THEN 0 ELSE 1)
          [] last_nibble = 14 ->
                SetV(SetV(e, x, U8(vx * 2)), 15, (vx \div 128) % 2)
          [] OTHER -> InvalidOpcode(e, opcode)

execute_opcode_9(e, opcode) ==
    LET e1 == IF OpN(opcode) # 0 THEN InvalidOpcode(e, opcode) ELSE e
    IN  IF e1.status = "panicked" THEN e1
        ELSE IF V(e1, OpX(opcode)) # V(e1, OpY(opcode)) THEN skip_opcode(e1) ELSE e1

execute_opcode_a(e, opcode) == [e EXCEPT !.state.i_register = OpNNN(opcode)]

execute_opcode_b(e, opcode) == SetPc(e, V(e, 0) + OpNNN(opcode))

\* rand::random::<u8>() is the byte `random`
execute_opcode_c(e, opcode, random) ==
    SetV(e, OpX(opcode), BitAnd(random, OpNN(opcode)))


(***************************************************************************)
(* DXYN.  draw_pixel is the body of the column loop, draw_row the body of  *)
(* the row loop from column `col` on, draw_rows the row loop from `row`.   *)
(***************************************************************************)
Pow2(k) == CASE k = 0 -> 1 [] k = 1 -> 2 [] k = 2 -> 4 [] k = 3 -> 8
             [] k = 4 -> 16 [] k = 5 -> 32 [] k = 6 -> 64 [] k = 7 -> 128

\* draw_pixel that only ever switches pixels on
draw_pixel_or(e, vx, vy, row, col, raw_byte) ==
    LET x == (vx % BASE_WIDTH) + col
        y == (vy % BASE_HEIGHT) + row
        pixel_value == (raw_byte \div Pow2(7 - col)) % 2
    IN  IF x > BASE_WIDTH - 1 \/ y > BASE_HEIGHT - 1 \/ pixel_value = 0
        THEN e
        ELSE [e EXCEPT !.state.image = @ \cup {<<x, y>>}]

draw_pixel(e, vx, vy, row, col, raw_byte) ==
    LET x == (vx % BASE_WIDTH) + col
        y == (vy % BASE_HEIGHT) + row
        pixel_value == (raw_byte \div Pow2(7 - col)) % 2
        old_pixel_value == IF <<x, y>> \in e.state.image THEN 1 ELSE 0
    IN  IF x > BASE_WIDTH - 1 \/ y > BASE_HEIGHT - 1
        THEN e
        ELSE IF BitXor(pixel_value, old_pixel_value) = 1
             THEN [e EXCEPT !.state.image = @ \cup {<<x, y>>}]
             ELSE LET e1 == IF old_pixel_value = 1 THEN SetV(e, 15, 1) ELSE e
                  IN  [e1 EXCEPT !.state.image = @ \ {<<x, y>>}]

RECURSIVE draw_row(_, _, _, _, _, _)
draw_row(e, vx, vy, row, col, raw_byte) ==
    IF col > 7 THEN e
    ELSE draw_row(draw_pixel(e, vx, vy, row, col, raw_byte),
                  vx, vy, row, col + 1, raw_byte)

RECURSIVE draw_rows(_, _, _, _, _)
draw_rows(e, vx, vy, height, row) ==
    IF row >= height THEN e
    ELSE IF ~MemOk(e.state.i_register + row) THEN Panic(e)
    ELSE draw_rows(draw_row(e, vx, vy, row, 0, read_mem(e, e.state.i_register + row)),
                   vx, vy, height, row + 1)

execute_opcode_d(e, opcode) ==
    LET vx == V(e, OpX(opcode))
        vy == V(e, OpY(opcode))
    IN  draw_rows(SetV(e, 15, 0), vx, vy, OpN(opcode), 0)

execute_opcode_e(e, opcode) ==
    LET key == V(e, OpX(opcode))
    IN  CASE OpNN(opcode) = 158 -> IF is_key_down(key) THEN skip_opcode(e) ELSE e
          [] OpNN(opcode) = 161 -> IF ~is_key_down(key) THEN skip_opcode(e) ELSE e
          [] OTHER -> InvalidOpcode(e, opcode)

(***************************************************************************)
(* FX0A calls wait_for_key_press, which publishes and then polls the key   *)
(* input in a loop of its own: the thread stays at "wait_key" until        *)
(* WaitForKeyPress finds a released key.                                   *)
(***************************************************************************)
wait_for_key_press(e, x) ==
    LET e1 == update_gui(e)
    IN  IF e1.status = "panicked" THEN e1
        ELSE [e1 EXCEPT !.at = "wait_key", !.wait_x = x]

\* FX55, the loop from register i on
RECURSIVE store_registers(_, _, _)
store_registers(e, i, x) ==
    IF i > x THEN e
    ELSE IF ~MemOk(e.state.i_register) THEN Panic(e)
    ELSE store_registers(
            [write_mem(e, e.state.i_register, V(e, i))
                EXCEPT !.state.i_register = e.state.i_register + 1],
            i + 1, x)

\* FX65, the loop from register i on
RECURSIVE load_registers(_, _, _)
load_registers(e, i, x) ==
    IF i > x THEN e
    ELSE IF ~MemOk(e.state.i_register) THEN Panic(e)
    ELSE load_registers(
            [SetV(e, i, read_mem(e, e.state.i_register))
                EXCEPT !.state.i_register = e.state.i_register + 1],
            i + 1, x)

execute_opcode_f(e, opcode) ==
    LET x  == OpX(opcode)
        vx == V(e, x)
        i  == e.state.i_register
    IN  CASE OpNN(opcode) = 7   -> SetV(e, x, e.state.delay_timer)
          [] OpNN(opcode) = 10  -> wait_for_key_press(e, x)
          [] OpNN(opcode) = 21  -> [e EXCEPT !.state.delay_timer = vx]
          [] OpNN(opcode) = 24  -> [e EXCEPT !.state.sound_timer = vx]
          [] OpNN(opcode) = 30  ->
                IF i + vx > 65535 /\ overflow_checks
                THEN Panic(e)
                ELSE [e EXCEPT !.state.i_register = U16(i + vx)]
          [] OpNN(opcode) = 41  -> [e EXCEPT !.state.i_register = vx * 5]
          [] OpNN(opcode) = 51  ->
                IF ~MemOk(i) THEN Panic(e)
                ELSE IF ~MemOk(i + 1) THEN Panic(write_mem(e, i, vx \div 100))
                ELSE IF ~MemOk(i + 2)
                     THEN Panic(write_mem(write_mem(e, i, vx \div 100),
                                          i + 1, (vx % 100) \div 10))
                ELSE write_mem(write_mem(write_mem(e, i, vx \div 100),
                                         i + 1, (vx % 100) \div 10),
                               i + 2, vx % 10)
          [] OpNN(opcode) = 85  -> store_registers(e, 0, x)
          [] OpNN(opcode) = 101 -> load_registers(e, 0, x)
          [] OTHER -> InvalidOpcode(e, opcode)

(***************************************************************************)
(* execute_opcode: the fetch (read_16bit_immediate advances the program    *)
(* counter byte by byte) and the dispatch on the first nibble.             *)
(***************************************************************************)
dispatch(e, opcode, random) ==
    LET first_nibble == opcode \div 4096
    IN  CASE first_nibble = 0  -> execute_opcode_0(e, opcode)
          [] first_nibble = 1  -> execute_opcode_1(e, opcode)
          [] first_nibble = 2  -> execute_opcode_2(e, opcode)
          [] first_nibble = 3  -> execute_opcode_3(e, opcode)
          [] first_nibble = 4  -> execute_opcode_4(e, opcode)
          [] first_nibble = 5  -> execute_opcode_5(e, opcode)
          [] first_nibble = 6  -> execute_opcode_6(e, opcode)
          [] first_nibble = 7  -> execute_opcode_7(e, opcode)
          [] first_nibble = 8  -> execute_opcode_8(e, opcode)
          [] first_nibble = 9  -> execute_opcode_9(e, opcode)
          [] first_nibble = 10 -> execute_opcode_a(e, opcode)
          [] first_nibble = 11 -> execute_opcode_b(e, opcode)
          [] first_nibble = 12 -> execute_opcode_c(e, opcode, random)
          [] first_nibble = 13 -> execute_opcode_d(e, opcode)
          [] first_nibble = 14 -> execute_opcode_e(e, opcode)
          [] first_nibble = 15 -> execute_opcode_f(e, opcode)

execute_opcode(e, random) ==
    LET pc == e.state.program_counter
    IN  IF ~MemOk(pc) THEN Panic(SetPc(e, pc + 1))
        ELSE IF ~MemOk(pc + 1) THEN Panic(SetPc(e, pc + 2))
        ELSE dispatch([SetPc(e, pc + 2) EXCEPT !.executed = e.executed + 1],
                      read_mem(e, pc) * 256 + read_mem(e, pc + 1), random)


(***************************************************************************)
(* step_frame and the rest of the frame in Core::run.                      *)
(***************************************************************************)
\* update_timers with decrements that wrap below zero
update_timers_wrapping(e) ==
    [e EXCEPT !.state.delay_timer = U8(@ + 255),
              !.state.sound_timer = U8(@ + 255)]

update_timers(e) ==
    [e EXCEPT !.state.delay_timer = IF @ > 0 THEN @ - 1 ELSE @,
              !.state.sound_timer = IF @ > 0 THEN @ - 1 ELSE @]

Exited(e) == [e EXCEPT !.status = "exited"]

\* Core::run after step_frame returned: lines 291-297
\* frame_end that leaves current_frame as it is
frame_end_uncounted(e) ==
    IF should_exit(e) THEN Exited(e)
    ELSE LET e1 == update_gui(e)
         IN  IF e1.status = "panicked" THEN e1
             ELSE [e1 EXCEPT !.at = "tail"]

frame_end(e) ==
    IF should_exit(e) THEN Exited(e)
    ELSE LET e1 == update_gui(e)
         IN  IF e1.status = "panicked" THEN e1
             ELSE [e1 EXCEPT !.state.current_frame = @ + 1, !.at = "tail"]

\* the byte the k-th executed instruction draws from rand::random
Random(seed, k) == U8(seed + 37 * k)

(***************************************************************************)
(* The loop of step_frame with n instructions left, and what follows it.   *)
(* The loop stops where the thread blocks in wait_for_key_press; it is     *)
(* resumed by WaitForKeyPress with the instructions that were left.        *)
(***************************************************************************)
\* (the engine after an instruction is bound as an element of a singleton
\* set, which makes it a value that is computed once)
RECURSIVE step_frame(_, _, _)
step_frame(e, n, seed) ==
    IF n = 0 THEN frame_end(update_timers(e))
    ELSE CHOOSE after \in
            { IF e1.status = "panicked" THEN e1
              ELSE IF e1.at = "wait_key" THEN [e1 EXCEPT !.opcodes_left = n - 1]
              ELSE IF should_exit(e1) THEN frame_end(e1)
              ELSE step_frame(e1, n - 1, seed)
                : e1 \in {execute_opcode(e, Random(seed, e.executed))} } : TRUE

(***************************************************************************)
(* limit_speed and the instrumentation at the end of an iteration of       *)
(* Core::run.  `elapsed` is the measured time of the iteration and         *)
(* `jitter` the time slept beyond the time asked for.                      *)
(***************************************************************************)
\* limit_speed with the sleep error of the opposite sign
limit_speed_error_negated(e, elapsed, jitter) ==
    LET sleep_needed_millis == MinFrameTime - elapsed + e.sleep_error_millis
    IN  IF sleep_needed_millis > 0
        THEN [e EXCEPT !.sleep_error_millis =
                          (sleep_needed_millis + jitter) - sleep_needed_millis]
        ELSE [e EXCEPT !.sleep_error_millis = 0]

\* limit_speed that keeps the sleep error when it does not sleep
limit_speed_error_kept(e, elapsed, jitter) ==
    LET sleep_needed_millis == MinFrameTime - elapsed + e.sleep_error_millis
    IN  IF sleep_needed_millis > 0
        THEN [e EXCEPT !.sleep_error_millis =
                          sleep_needed_millis - (sleep_needed_millis + jitter)]
        ELSE e

limit_speed(e, elapsed, jitter) ==
    LET sleep_needed_millis == MinFrameTime - elapsed + e.sleep_error_millis
    IN  IF sleep_needed_millis > 0
        THEN [e EXCEPT !.sleep_error_millis =
                          sleep_needed_millis - (sleep_needed_millis + jitter)]
        ELSE [e EXCEPT !.sleep_error_millis = 0]

millis_slept(e, elapsed, jitter) ==
    LET sleep_needed_millis == MinFrameTime - elapsed + e.sleep_error_millis
    IN  IF sleep_needed_millis > 0 THEN sleep_needed_millis + jitter ELSE 0

\* 1000.0 / frame time in milliseconds, in thousandths of a frame per second
FpsOf(frame_time) == (60 * 1000 * 1000) \div frame_time

\* lines 300-333 of run
end_of_iteration(e, elapsed, jitter) ==
    LET frame_time_with_sleep == elapsed + millis_slept(e, elapsed, jitter)
        e1 == limit_speed(e, elapsed, jitter)
    IN  IF e.running
        THEN [e1 EXCEPT !.state.actual_frame_time = elapsed,
                        !.state.frame_time_with_sleep = frame_time_with_sleep,
                        !.state.fps = FpsOf(frame_time_with_sleep)]
        ELSE [e1 EXCEPT !.state.actual_frame_time = 0,
                        !.state.frame_time_with_sleep = 0,
                        !.state.fps = 0]

\* lines 275-282 of run: the check at the top of the loop
loop_top(e) ==
    IF should_exit(e) THEN Exited(e)
    ELSE [e EXCEPT !.at = "events", !.event_handled = FALSE]

\* the rest of an iteration once the thread has left the frame, and the top
\* of the next one: nothing in it meets the controller
finish_iteration(e, elapsed, jitter) ==
    IF e.status = "alive" /\ e.at = "tail"
    THEN loop_top(end_of_iteration(e, elapsed, jitter))
    ELSE e


(***************************************************************************)
(* The state: the engine instances in the order of their creation (the     *)
(* controller holds the channels of the last one) and the controller.      *)
(***************************************************************************)
VARIABLES cores, gui

vars == <<cores, gui, input, overflow_checks, op, clock>>

Cur == Len(cores)

NoInput == [keys_down |-> {}, keys_released |-> {}]
Inputs == {NoInput, [keys_down |-> {}, keys_released |-> {1}]}

RandomSeeds == {0}
ElapsedTimes == {60}
SleepJitters == {0}

NoOp ==
    [opcode |-> 0, before |-> None, done |-> FALSE, middle |-> None, again |-> FALSE]
NoClock ==
    [iterations |-> 0, total |-> 0, positive |-> TRUE,
     elapsed |-> 0, carried |-> 0, slept |-> 0]

Gui_new ==
    [ at                |-> "idle",
      actions           |-> 0,
      opcodes_per_frame |-> 0,
      after             |-> <<>>,
      pending           |-> <<>>,
      last_rom_path     |-> None,
      crashed           |-> FALSE ]

Init ==
    /\ cores = <<Core_new>>
    /\ gui = Gui_new
    /\ input = NoInput
    /\ overflow_checks = FALSE
    /\ op = NoOp
    /\ clock = NoClock

Alive(i) == i <= Len(cores) /\ cores[i].status = "alive" /\ ~gui.crashed

(***************************************************************************)
(* Core::run, one action per stretch between two points where the thread   *)
(* meets the controller: a receive from the command queue, an update of    *)
(* the snapshot, a read of the key input.  (An engine between two steps of *)
(* a handler is bound as the element of a singleton set, which makes it a  *)
(* value that is computed once.)                                           *)
(***************************************************************************)
\* handle_events: try_recv gave an event
HandleEvent(i) ==
    /\ Alive(i)
    /\ cores[i].at = "events"
    /\ cores[i].events # <<>>
    /\ \E e1 \in {handle_event([cores[i] EXCEPT !.events = Tail(@)],
                                Head(cores[i].events))} :
          cores' = [cores EXCEPT ![i] =
                        IF e1.status = "panicked" THEN e1
                        ELSE [e1 EXCEPT !.event_handled = TRUE]]
    /\ UNCHANGED <<gui, env>>

\* handle_events after the last event (lines 365-368) and lines 284-288 of run
\* events_done that publishes whether or not an event was handled
events_done_publish_always(e) ==
    LET e1 == update_gui(e)
        e2 == [e1 EXCEPT !.running = e1.state.running,
                         !.step_frame = e1.state.step_frame]
    IN  IF e1.status = "panicked" THEN e1
        ELSE IF e2.running \/ e2.step_frame
             THEN [e2 EXCEPT !.state.step_frame = FALSE,
                             !.at = "frame",
                             !.opcodes_left = e2.state.opcodes_per_frame]
             ELSE [e2 EXCEPT !.at = "tail"]

\* events_done that leaves the step_frame flag of the state set
events_done_keep_step_frame(e) ==
    LET e1 == IF e.event_handled THEN update_gui(e) ELSE e
        e2 == [e1 EXCEPT !.running = e1.state.running,
                         !.step_frame = e1.state.step_frame]
    IN  IF e1.status = "panicked" THEN e1
        ELSE IF e2.running \/ e2.step_frame
             THEN [e2 EXCEPT !.at = "frame",
                             !.opcodes_left = e2.state.opcodes_per_frame]
             ELSE [e2 EXCEPT !.at = "tail"]

events_done(e) ==
    LET e1 == IF e.event_handled THEN update_gui(e) ELSE e
        e2 == [e1 EXCEPT !.running = e1.state.running,
                         !.step_frame = e1.state.step_frame]
    IN  IF e1.status = "panicked" THEN e1
        ELSE IF e2.running \/ e2.step_frame
             THEN [e2 EXCEPT !.state.step_frame = FALSE,
                             !.at = "frame",
                             !.opcodes_left = e2.state.opcodes_per_frame]
             ELSE [e2 EXCEPT !.at = "tail"]

EventsDone(i) ==
    /\ Alive(i)
    /\ cores[i].at = "events"
    /\ cores[i].events = <<>>
    /\ ((cores[i].state.running \/ cores[i].state.step_frame) /\ ~should_exit(cores[i]))
            => cores[i].state.current_frame < MaxFrames
    /\ \E elapsed \in ElapsedTimes, jitter \in SleepJitters :
          \E e1 \in {events_done(cores[i])} :
              cores' = [cores EXCEPT ![i] = finish_iteration(e1, elapsed, jitter)]
    /\ UNCHANGED <<gui, env>>

\* step_frame, up to the end of the frame or to a key wait
RunFrame(i) ==
    /\ Alive(i)
    /\ cores[i].at = "frame"
    /\ \E seed \in RandomSeeds, elapsed \in ElapsedTimes, jitter \in SleepJitters :
          \E e1 \in {step_frame(cores[i], cores[i].opcodes_left, seed)} :
              cores' = [cores EXCEPT ![i] = finish_iteration(e1, elapsed, jitter)]
    /\ UNCHANGED <<gui, env>>

\* the lowest key whose release the loop of wait_for_key_press finds
released_key == CHOOSE k \in input.keys_released :
                    \A j \in input.keys_released : k <= j

\* one turn of the loop of wait_for_key_press, and the frame after a key
WaitForKeyPress(i) ==
    /\ Alive(i)
    /\ cores[i].at = "wait_key"
    /\ IF input.keys_released = {}
       THEN UNCHANGED cores
       ELSE \E seed \in RandomSeeds, elapsed \in ElapsedTimes, jitter \in SleepJitters :
              \E e1 \in {[SetV(cores[i], cores[i].wait_x, released_key)
                                EXCEPT !.at = "frame"]} :
              \E e2 \in {IF should_exit(e1) THEN frame_end(e1)
                          ELSE step_frame(e1, e1.opcodes_left, seed)} :
                  cores' = [cores EXCEPT ![i] = finish_iteration(e2, elapsed, jitter)]
    /\ UNCHANGED <<gui, env>>

(***************************************************************************)
(* The controller (src/src/gui.rs).                                        *)
(***************************************************************************)
\* Receiver::latest: take the value an update left, and hold it
latest(e) ==
    IF IsSome(e.slot) THEN [e EXCEPT !.latest = e.slot, !.slot = None] ELSE e

\* Gui::send_event to the engine the controller holds.  The send fails once
\* the thread has ended and dropped its receiver; the controller then panics
\* unless the snapshot shows an error.
send_event(cs, g, event) ==
    LET e == cs[Len(cs)]
    IN  IF e.status = "alive"
        THEN [cores |-> [cs EXCEPT ![Len(cs)].events = Append(@, event)], gui |-> g]
        ELSE [cores |-> [cs EXCEPT ![Len(cs)] = latest(e)],
              gui   |-> [g EXCEPT !.crashed = ~IsSome(Unwrap(latest(e).latest).error)]]

\* any command, from any controller
SendEvent(event) ==
    /\ ~gui.crashed
    /\ gui.at = "idle"
    /\ gui.actions < MaxSends
    /\ LET r == send_event(cores, [gui EXCEPT !.actions = @ + 1], event)
       IN  cores' = r.cores /\ gui' = r.gui
    /\ UNCHANGED env

\* the key input of a new frame of the controller
SetInput(inp) ==
    /\ ~gui.crashed
    /\ gui.at = "idle"
    /\ gui.actions < MaxSends
    /\ inp # input
    /\ input' = inp
    /\ gui' = [gui EXCEPT !.actions = @ + 1]
    /\ UNCHANGED <<cores, overflow_checks, op, clock>>

\* Gui::latest_frame and the other reads of a frame of the controller
GuiLatest ==
    /\ ~gui.crashed
    /\ IsSome(cores[Cur].slot)
    /\ cores' = [cores EXCEPT ![Cur] = latest(@)]
    /\ UNCHANGED <<gui, env>>

\* Gui::error_occurred (no gui_error is modelled)
error_occurred(e) == IsSome(Unwrap(latest(e).latest).error)

(***************************************************************************)
(* Gui::reset_core up to the sleep: read opcodes_per_frame, send Exit.     *)
(* `after` are the commands the caller sends once reset_core returned.     *)
(***************************************************************************)
reset_core_begin(after) ==
    /\ Cur < MaxCores
    /\ LET g == [gui EXCEPT !.actions = @ + 1,
                            !.opcodes_per_frame =
                                Unwrap(latest(cores[Cur]).latest).opcodes_per_frame,
                            !.after = after,
                            !.at = "reset_sleep"]
           r == send_event([cores EXCEPT ![Cur] = latest(@)], g, [type |-> "Exit"])
       IN  cores' = r.cores /\ gui' = r.gui
    /\ UNCHANGED env

\* the Reset button (show_options_section)
Reset ==
    /\ ~gui.crashed
    /\ gui.at = "idle"
    /\ gui.actions < MaxGuiActions
    /\ ~error_occurred(cores[Cur])
    /\ reset_core_begin(<<>>)

\* the Reset ROM button: reset_core_keep_rom
ResetKeepRom ==
    /\ ~gui.crashed
    /\ gui.at = "idle"
    /\ gui.actions < MaxGuiActions
    /\ ~error_occurred(cores[Cur])
    /\ reset_core_begin(
          IF IsSome(gui.last_rom_path)
          THEN <<[type |-> "LoadRom", path |-> Unwrap(gui.last_rom_path)],
                 [type |-> "ChangeRunning", running |-> TRUE]>>
          ELSE <<>>)

\* the Load button (show_rom_section) with the file the dialog picked
LoadButton(path) ==
    /\ ~gui.crashed
    /\ gui.at = "idle"
    /\ gui.actions < MaxGuiActions
    /\ LET after == <<[type |-> "LoadRom", path |-> path],
                      [type |-> "ChangeRunning", running |-> TRUE]>>
       IN  IF IsSome(Unwrap(latest(cores[Cur]).latest).rom_name)
           THEN /\ reset_core_begin(after)
                /\ gui'.last_rom_path = Some(path)
           ELSE /\ cores' = [cores EXCEPT ![Cur] = latest(@)]
                /\ gui' = [gui EXCEPT !.actions = @ + 1,
                                      !.last_rom_path = Some(path),
                                      !.pending = after,
                                      !.at = "sending"]
                /\ UNCHANGED env

\* the values the "Opcodes per frame" slider is moved to; a double click
\* sends the 20
SliderValues == {2, DefaultOpcodesPerFrame}

\* the slider of show_options_section: one read of the snapshot, one command
Slider(k) ==
    /\ ~gui.crashed
    /\ gui.at = "idle"
    /\ gui.actions < MaxGuiActions
    /\ ~error_occurred(cores[Cur])
    /\ LET r == send_event([cores EXCEPT ![Cur] = latest(@)],
                           [gui EXCEPT !.actions = @ + 1],
                           [type |-> "ChangeOpcodesPerFrame", opcodes_per_frame |-> k])
       IN  cores' = r.cores /\ gui' = r.gui
    /\ UNCHANGED env

\* the Running checkbox, enabled whether or not the snapshot shows a ROM
RunningCheckboxAlwaysEnabled ==
    /\ ~gui.crashed
    /\ gui.at = "idle"
    /\ gui.actions < MaxGuiActions
    /\ ~error_occurred(cores[Cur])
    /\ LET r == send_event([cores EXCEPT ![Cur] = latest(@)],
                           [gui EXCEPT !.actions = @ + 1],
                           [type |-> "ChangeRunning",
                            running |-> ~Unwrap(latest(cores[Cur]).latest).running])
       IN  cores' = r.cores /\ gui' = r.gui
    /\ UNCHANGED env

\* the Running checkbox of show_running_and_step_frame, enabled once the
\* snapshot shows a ROM: the command carries the opposite of the snapshot's
\* running
RunningCheckbox ==
    /\ ~gui.crashed
    /\ gui.at = "idle"
    /\ gui.actions < MaxGuiActions
    /\ ~error_occurred(cores[Cur])
    /\ IsSome(Unwrap(latest(cores[Cur]).latest).rom_name)
    /\ LET r == send_event([cores EXCEPT ![Cur] = latest(@)],
                           [gui EXCEPT !.actions = @ + 1],
                           [type |-> "ChangeRunning",
                            running |-> ~Unwrap(latest(cores[Cur]).latest).running])
       IN  cores' = r.cores /\ gui' = r.gui
    /\ UNCHANGED env

\* the Step frame button, enabled while the snapshot shows a ROM and
\* running = false
StepFrameButton ==
    /\ ~gui.crashed
    /\ gui.at = "idle"
    /\ gui.actions < MaxGuiActions
    /\ ~error_occurred(cores[Cur])
    /\ IsSome(Unwrap(latest(cores[Cur]).latest).rom_name)
    /\ ~Unwrap(latest(cores[Cur]).latest).running
    /\ LET r == send_event([cores EXCEPT ![Cur] = latest(@)],
                           [gui EXCEPT !.actions = @ + 1],
                           [type |-> "StepFrame"])
       IN  cores' = r.cores /\ gui' = r.gui
    /\ UNCHANGED env

\* Gui::create_new_core: a new engine; the old receiver and sender are dropped
create_new_core(cs) ==
    Append([cs EXCEPT ![Len(cs)].latest = None, ![Len(cs)].slot = None], Core_new)

\* reset_core after the sleep: create_new_core, then the commands to send
ResetCreate ==
    /\ ~gui.crashed
    /\ gui.at = "reset_sleep"
    /\ cores' = create_new_core(cores)
    /\ gui' = [gui EXCEPT
                  !.pending = <<[type |-> "ChangeOpcodesPerFrame",
                                 opcodes_per_frame |-> gui.opcodes_per_frame]>>
                              \o gui.after,
                  !.after = <<>>,
                  !.at = "sending"]
    /\ UNCHANGED env

\* the next send_event of the procedure of the controller under way
SendPending ==
    /\ ~gui.crashed
    /\ gui.at = "sending"
    /\ LET g == [gui EXCEPT !.pending = Tail(@),
                            !.at = IF Len(gui.pending) = 1 THEN "idle" ELSE @]
           r == send_event(cores, g, Head(gui.pending))
       IN  cores' = r.cores /\ gui' = r.gui
    /\ UNCHANGED env

\* Gui::check_core_error with the Ok button of the error window clicked
CheckCoreError ==
    /\ ~gui.crashed
    /\ gui.at = "idle"
    /\ gui.actions < MaxGuiActions
    /\ Cur < MaxCores
    /\ error_occurred(cores[Cur])
    /\ cores' = create_new_core(cores)
    /\ gui' = [gui EXCEPT !.actions = @ + 1]
    /\ UNCHANGED env

CoreStep(i) ==
    \/ HandleEvent(i)
    \/ EventsDone(i)
    \/ RunFrame(i)
    \/ WaitForKeyPress(i)

(***************************************************************************)
(* The engine under the commands of any controller.                        *)
(***************************************************************************)
Next ==
    \/ \E i \in 1..Len(cores) : CoreStep(i)
    \/ \E event \in Events : SendEvent(event)
    \/ \E inp \in Inputs : SetInput(inp)
    \/ GuiLatest

Spec == Init /\ [][Next]_vars

(***************************************************************************)
(* The engines under the controller of src/src/gui.rs, which replaces      *)
(* them.                                                                   *)
(***************************************************************************)
\* the files the dialog of the Load button offers
GuiPaths == {Path("full.ch8"), Path("keywait.ch8"), Path("missing.ch8")}

GuiNext ==
    \/ \E i \in 1..Len(cores) : CoreStep(i)
    \/ Reset
    \/ ResetKeepRom
    \/ \E path \in GuiPaths : LoadButton(path)
    \/ \E k \in SliderValues : Slider(k)
    \/ RunningCheckbox
    \/ StepFrameButton
    \/ ResetCreate
    \/ SendPending
    \/ CheckCoreError

GuiSpec == Init /\ [][GuiNext]_vars


\* the operating system keeps scheduling every scheduler thread
FairSpec == Spec /\ \A i \in 1..MaxCores : WF_vars(CoreStep(i))

(***************************************************************************)
(* Single instructions: execute_opcode applied to an engine whose          *)
(* registers, program counter, index register, call stack, image and next  *)
(* opcode are drawn from bounded sets, and then once more to the engine it *)
(* leaves (the next turn of the loop of step_frame).  The opcode is stored *)
(* twice in a row where the memory has room, so that the second turn       *)
(* executes it again unless the first one moved the program counter.  The  *)
(* subroutine a call 2NNN names is a single return, 00EE at NNN.           *)
(***************************************************************************)
OpXs == {1, 15}
OpYs == {2}
OpOpcodes ==
    {o \in 0..65535 :
        \/ /\ OpX(o) \in OpXs
           /\ \/ (o \div 4096) \in {14, 15}
              \/ OpY(o) \in OpYs
              \/ (o \div 4096) = 8 /\ OpY(o) \in OpXs
        \/ o \in {224, 238}}
OpRegisters ==
    { [r \in 0..15 |-> 0],
      [r \in 0..15 |-> (r * 17 + 3) % 256],
      [r \in 0..15 |-> (r * 30 + 32) % 256] }
\* the arithmetic instructions 8XYN get more register contents
OpRegistersOf(opcode) ==
    IF opcode \div 4096 = 8
    THEN OpRegisters \cup
            { [r \in 0..15 |-> CASE r = 1 -> v1 [] r = 2 -> v2 [] r = 15 -> vf
                                  [] OTHER -> 0] :
                  v1 \in {1, 10, 255}, v2 \in {1, 2, 5, 255}, vf \in {0, 129, 255} }
    ELSE OpRegisters
OpProgramCounters == {512, 4094}
OpRandoms == {0, 165}
OpIRegisters(opcode) ==
    CASE opcode \div 4096 = 13 -> {0, 768, 4095}
      [] opcode \div 4096 = 15 -> {0, 768, 4095, 65535}
      [] OTHER -> {0}
OpCallStacks(opcode) ==
    IF opcode \div 4096 \in {0, 2} THEN {<<>>, <<516>>} ELSE {<<>>}
OpImages(opcode) ==
    IF opcode \div 4096 = 13 \/ opcode = 224
    THEN {{}, {<<0, 0>>, <<1, 0>>, <<20, 5>>, <<62, 28>>, <<63, 31>>}}
    ELSE {{}}

\* the key input while a key instruction EXNN runs
OpInputs(opcode) ==
    IF opcode \div 4096 = 14
    THEN { [keys_down |-> down, keys_released |-> {}] :
              down \in {{}, {0}, {2, 4, 14}} }
    ELSE {NoInput}

OpCore(opcode, pc, registers, i_register, call_stack, image) ==
    [Core_new EXCEPT
        !.at = "frame",
        !.state.program_counter = pc,
        !.state.v_registers = registers,
        !.state.i_register = i_register,
        !.state.call_stack = call_stack,
        !.state.image = image,
        !.state.memory =
            copy_from_slice(
                IF opcode \div 4096 = 2
                THEN copy_from_slice(@, OpNNN(opcode), <<0, 238>>)
                ELSE @,
                pc,
                IF pc + 3 < MemSize
                THEN <<opcode \div 256, opcode % 256, opcode \div 256, opcode % 256>>
                ELSE <<opcode \div 256, opcode % 256>>)]

OpInit ==
    /\ \E opcode \in OpOpcodes, pc \in OpProgramCounters :
       \E registers \in OpRegistersOf(opcode) :
       \E i_register \in OpIRegisters(opcode), call_stack \in OpCallStacks(opcode),
          image \in OpImages(opcode) :
       \E e \in {OpCore(opcode, pc, registers, i_register, call_stack, image)} :
          /\ cores = <<e>>
          /\ op = [opcode |-> opcode,
                   before |-> Some(e),
                   done   |-> FALSE,
                   middle |-> None,
                   again  |-> FALSE]
          /\ input \in OpInputs(opcode)
    /\ gui = Gui_new
    /\ overflow_checks \in BOOLEAN
    /\ clock = NoClock

OpExecute ==
    /\ ~op.done
    /\ \E random \in OpRandoms :
          cores' = <<execute_opcode(cores[1], random)>>
    /\ op' = [op EXCEPT !.done = TRUE]
    /\ UNCHANGED <<gui, input, overflow_checks, clock>>

\* the next turn of the loop of step_frame: none after should_exit, and the
\* thread is inside wait_for_key_press while it is at "wait_key"
OpExecuteNext ==
    /\ op.done
    /\ ~op.again
    /\ cores[1].status = "alive"
    /\ cores[1].at = "frame"
    /\ ~should_exit(cores[1])
    /\ \E random \in OpRandoms :
          cores' = <<execute_opcode(cores[1], random)>>
    /\ op' = [op EXCEPT !.middle = Some(cores[1]), !.again = TRUE]
    /\ UNCHANGED <<gui, input, overflow_checks, clock>>

OpNext == OpExecute \/ OpExecuteNext

OpSpec == OpInit /\ [][OpNext]_vars

(***************************************************************************)
(* Timing: whole iterations of Core::run of an engine that receives no     *)
(* command, idle or running the zero-filled memory, with the measured time *)
(* of the iteration and the imprecision of the sleep drawn from bounded    *)
(* sets.  Time passes in the measured work and in the sleep.               *)
(***************************************************************************)
TimingElapsedTimes == {60, 1000, 1200}
TimingSleepJitters == {0 - 30, 0, 45}

TimingInit ==
    /\ \E running \in BOOLEAN :
          cores = <<[Core_new EXCEPT !.state.running = running]>>
    /\ gui = Gui_new
    /\ input = NoInput
    /\ overflow_checks = FALSE
    /\ op = NoOp
    /\ clock = NoClock

TimingIteration ==
    /\ clock.iterations < MaxIterations
    /\ cores[1].status = "alive"
    /\ cores[1].at = "events"
    /\ \E seed \in RandomSeeds, elapsed \in TimingElapsedTimes,
          jitter \in TimingSleepJitters :
       \E e1 \in {events_done(cores[1])} :
       \E e2 \in {IF e1.at = "frame"
                   THEN step_frame(e1, e1.opcodes_left, seed) ELSE e1} :
          /\ cores' = <<finish_iteration(e2, elapsed, jitter)>>
          /\ clock' =
                [iterations |-> clock.iterations + 1,
                 total      |-> clock.total + elapsed + millis_slept(e2, elapsed, jitter),
                 positive   |-> clock.positive
                                  /\ MinFrameTime - elapsed + e2.sleep_error_millis > 0,
                 elapsed    |-> elapsed,
                 carried    |-> e2.sleep_error_millis,
                 slept      |-> millis_slept(e2, elapsed, jitter)]
    /\ UNCHANGED <<gui, input, overflow_checks, op>>

TimingNext == TimingIteration

TimingSpec == TimingInit /\ [][TimingNext]_vars

\* the controller of gui.rs with scheduler threads that keep being scheduled
FairGuiSpec == GuiSpec /\ \A i \in 1..MaxCores : WF_vars(CoreStep(i))

(***************************************************************************)
(* Properties.                                                             *)
(***************************************************************************)
Cores == 1..Len(cores)

\* this step is the engine i receiving and applying LoadRom(path)
LoadRomStep(i, path) ==
    /\ i <= Len(cores)
    /\ Alive(i)
    /\ cores[i].at = "events"
    /\ cores[i].events # <<>>
    /\ Head(cores[i].events) = [type |-> "LoadRom", path |-> path]
    /\ cores'[i].events = Tail(cores[i].events)

RomFits(path) ==
    IsSome(fs_read(path)) /\ Len(Unwrap(fs_read(path))) <= MemSize - RomStart
RomTooLarge(path) ==
    IsSome(fs_read(path)) /\ Len(Unwrap(fs_read(path))) > MemSize - RomStart

\* memory[start .. start + Len(bytes)) holds bytes
MemoryHolds(memory, start, bytes) ==
    \A k \in 1..Len(bytes) : MemRead(memory, start + k - 1) = bytes[k]

\* C1: when the engine applies LoadRom of a ROM of at most 3584 bytes, the
\* memory from address 512 holds the bytes of the ROM afterwards, and the
\* load has set no error: the error field is as it was and the thread lives.
C1_LoadRomCopiesRom ==
    [][\A i \in 1..MaxCores : \A path \in Paths :
          (LoadRomStep(i, path) /\ RomFits(path)) =>
              /\ MemoryHolds(cores'[i].state.memory, RomStart, Unwrap(fs_read(path)))
              /\ cores'[i].state.error = cores[i].state.error
              /\ cores'[i].status = "alive"]_vars

\* the ROM that just fits (3584 bytes) has been loaded without an error
C1_FullRomLoaded ==
    \E i \in Cores :
        /\ cores[i].state.rom_size = Some(MemSize - RomStart)
        /\ MemoryHolds(cores[i].state.memory, RomStart, FullRom)
        /\ MemRead(cores[i].state.memory, MemSize - 1) = FullRom[Len(FullRom)]
        /\ cores[i].state.error = None

\* C2: when the engine applies LoadRom of a ROM of more than 3584 bytes, the
\* memory, rom_name and rom_size are afterwards exactly as before, and error
\* is RomTooLarge with the length of the ROM as size and 3584 as allowed.
C2_TooLargeRomChangesNothing ==
    [][\A i \in 1..MaxCores : \A path \in Paths :
          (LoadRomStep(i, path) /\ RomTooLarge(path)) =>
              /\ cores'[i].state.memory = cores[i].state.memory
              /\ cores'[i].state.rom_name = cores[i].state.rom_name
              /\ cores'[i].state.rom_size = cores[i].state.rom_size
              /\ IsSome(cores'[i].state.error)
              /\ Unwrap(cores'[i].state.error).kind = "RomTooLarge"
              /\ Unwrap(cores'[i].state.error).size = Len(Unwrap(fs_read(path)))
              /\ Unwrap(cores'[i].state.error).allowed = MemSize - RomStart]_vars

LoadFailed(e) ==
    /\ IsSome(e.state.error)
    /\ Unwrap(e.state.error).kind \in {"RomTooLarge", "InvalidRom"}

\* C3: an engine whose LoadRom has failed (error is RomTooLarge or
\* InvalidRom) executes no instruction in any later step, whatever commands
\* are in its queue.
C3_NoInstructionAfterFailedLoad ==
    [][\A i \in 1..MaxCores :
          (i <= Len(cores) /\ LoadFailed(cores[i])) =>
              cores'[i].executed = cores[i].executed]_vars

\* the thread is inside the iteration of the loop of run whose command drain
\* applied a command: still in that drain, in the frame after it, or in the
\* key wait of an instruction of that frame
InLastIteration(e) ==
    \/ e.at = "events" /\ e.event_handled
    \/ e.at = "frame"
    \/ e.at = "wait_key"

ExitQueued(e) ==
    \E k \in 1..Len(e.events) : e.events[k].type = "Exit"

\* the thread of engine i is alive, at the position `at` or not, with an
\* Exit command in its queue
ExitQueuedAt(i, at, there) ==
    IF i <= Len(cores)
    THEN Alive(i) /\ ((cores[i].at = at) <=> there) /\ ExitQueued(cores[i])
    ELSE FALSE

\* the thread of engine i has ended
Ended(i) == IF i <= Len(cores) THEN ~Alive(i) ELSE FALSE

\* the thread of engine i is in an FX0A key wait
InKeyWait(i) == IF i <= Len(cores) THEN cores[i].at = "wait_key" ELSE FALSE

C6_ExitEndsKeyWait ==
    \A i \in 1..MaxCores :
        ExitQueuedAt(i, "wait_key", TRUE) ~> Ended(i)

\* C7: at most one scheduler thread is alive at any time.
C7_AtMostOneThreadAlive ==
    Cardinality({i \in Cores : cores[i].status = "alive"}) <= 1

\* C8: what a read of the snapshot slot of an engine returns is the state
\* that its thread published last (the initial state when nothing was
\* published), whatever was read or left unread before and however the live
\* state has changed since.
C8_ReadReturnsLastPublished ==
    \A i \in Cores :
        IsSome(cores[i].latest) =>
            Unwrap(latest(cores[i]).latest) = cores[i].published

\* the controller has read a snapshot published after a frame, and the live
\* state has moved on since
C8_ReadAfterFrame ==
    \E i \in Cores :
        /\ cores[i].slot = None
        /\ cores[i].latest = Some(cores[i].published)
        /\ cores[i].executed > 0
        /\ cores[i].published # CoreState_new
        /\ cores[i].state # cores[i].published

\* C9: no publish of update_gui ever stops a scheduler thread.
C9_PublishNeverStopsThread ==
    \A i \in Cores : cores[i].panic # "update_gui"

\* the opcodes that match no instruction pattern
NoPattern(opcode) ==
    LET family == opcode \div 4096
    IN  \/ family \in {5, 9} /\ OpN(opcode) # 0
        \/ family = 8 /\ OpN(opcode) \in {8, 9, 10, 11, 12, 13, 15}
        \/ family = 14 /\ OpNN(opcode) \notin {158, 161}
        \/ family = 15 /\ OpNN(opcode) \notin {7, 10, 21, 24, 30, 41, 51, 85, 101}

\* C10: after the execution of an opcode that matches no instruction
\* pattern, error is InvalidOpcode with that opcode and the address the
\* opcode was fetched from.
C10_InvalidOpcodeReported ==
    (op.done /\ NoPattern(op.opcode)) =>
        cores[1].state.error =
            Some([kind    |-> "InvalidOpcode",
                  opcode  |-> op.opcode,
                  address |-> Unwrap(op.before).state.program_counter])

\* 5XY1, fetched from the last two bytes of the memory, has been executed
\* and reported
C10_InvalidOpcodeExecuted ==
    /\ op.done
    /\ NoPattern(op.opcode)
    /\ op.opcode \div 4096 = 5
    /\ Unwrap(op.before).state.program_counter = MemSize - 2
    /\ IsSome(cores[1].state.error)
    /\ Unwrap(cores[1].state.error).kind = "InvalidOpcode"

(***************************************************************************)
(* Properties of single instructions, stated of OpSpec.  OpBefore is the   *)
(* engine before the first instruction, OpFirst holds once exactly that    *)
(* instruction has been executed.                                          *)
(***************************************************************************)
OpBefore == Unwrap(op.before).state
OpFirst == op.done /\ ~op.again
OpFamily == op.opcode \div 4096

\* C11: 00EE executed with an empty call stack sets error to InvalidReturn
\* with the address the program counter had before the fetch, and the call
\* stack stays empty
C11_EmptyReturnReported ==
    (OpFirst /\ op.opcode = 238 /\ OpBefore.call_stack = <<>>) =>
        /\ cores[1].state.error =
               Some([kind    |-> "InvalidReturn",
                     address |-> OpBefore.program_counter])
        /\ cores[1].state.call_stack = <<>>

\* C11 witness: 00EE has been executed at the end of memory with nothing to
\* return to
C11_EmptyReturnExecuted ==
    /\ OpFirst
    /\ op.opcode = 238
    /\ OpBefore.call_stack = <<>>
    /\ OpBefore.program_counter = MemSize - 2
    /\ IsSome(cores[1].state.error)

\* the pixels of the sprite of DXYN `opcode` in engine state s when every
\* bit is placed modulo the width and the height of the screen
WrappedSprite(s, opcode) ==
    { <<(s.v_registers[OpX(opcode)] + col) % BASE_WIDTH,
        (s.v_registers[OpY(opcode)] + row) % BASE_HEIGHT>> :
          <<row, col>> \in
              { rc \in (0..(OpN(opcode) - 1)) \X (0..7) :
                    (MemRead(s.memory, s.i_register + rc[1]) \div Pow2(7 - rc[2])) % 2 = 1 } }

\* a DXYN instruction has run to its end with the whole sprite inside memory
OpDrawn ==
    /\ OpFirst
    /\ OpFamily = 13
    /\ OpBefore.i_register + OpN(op.opcode) <= MemSize
    /\ cores[1].status = "alive"

\* C12: DXYN flips the pixel ((VX + col) mod width, (VY + row) mod height)
\* for every set bit of the sprite, so the parts of a sprite that pass the
\* right or the bottom edge appear at the opposite edge
C12_SpriteWrapsAround ==
    OpDrawn =>
        cores[1].state.image =
            (OpBefore.image \ WrappedSprite(OpBefore, op.opcode))
                \cup (WrappedSprite(OpBefore, op.opcode) \ OpBefore.image)

\* the engine between the two instructions, and the opcode the second turn
\* fetched
OpMiddle == Unwrap(op.middle).state
OpSecondOpcode ==
    MemRead(OpMiddle.memory, OpMiddle.program_counter) * 256
        + MemRead(OpMiddle.memory, OpMiddle.program_counter + 1)

\* the same DXYN has been executed twice in a row with the same I, memory,
\* VX and VY
OpDrawnTwice ==
    /\ op.again
    /\ OpFamily = 13
    /\ cores[1].status = "alive"
    /\ OpSecondOpcode = op.opcode
    /\ OpMiddle.i_register = OpBefore.i_register
    /\ OpMiddle.memory = OpBefore.memory
    /\ OpMiddle.v_registers[OpX(op.opcode)] = OpBefore.v_registers[OpX(op.opcode)]
    /\ OpMiddle.v_registers[OpY(op.opcode)] = OpBefore.v_registers[OpY(op.opcode)]

\* C13 as stated: the second of two equal draws restores the image, and on
\* a blank screen the first draw reports VF = 0 and the second VF = 1
C13_SecondDrawReportsCollision ==
    OpDrawnTwice =>
        /\ cores[1].state.image = OpBefore.image
        /\ OpBefore.image = {} =>
              /\ OpMiddle.v_registers[15] = 0
              /\ cores[1].state.v_registers[15] = 1

\* C13 amended: the second of two equal draws restores the image; on a
\* blank screen the first draw reports VF = 0 and the second reports VF = 1
\* exactly when the first draw switched a pixel on
C13_SecondDrawRestoresImage ==
    OpDrawnTwice =>
        /\ cores[1].state.image = OpBefore.image
        /\ OpBefore.image = {} =>
              /\ OpMiddle.v_registers[15] = 0
              /\ cores[1].state.v_registers[15] = IF OpMiddle.image # {} THEN 1 ELSE 0

\* C13 witness: a sprite drawn twice over the right edge of a blank screen,
\* erased again by the second draw
C13_DrawnTwiceAtEdge ==
    /\ OpDrawnTwice
    /\ OpBefore.image = {}
    /\ OpBefore.v_registers[OpX(op.opcode)] = 62
    /\ <<63, 28>> \in OpMiddle.image
    /\ cores[1].state.image = {}
    /\ cores[1].state.v_registers[15] = 1

\* C14: FX55 and FX65 leave i_register as it was before the instruction
C14_IndexRegisterUnchanged ==
    (OpFirst /\ OpFamily = 15 /\ OpNN(op.opcode) \in {85, 101}
        /\ cores[1].status = "alive") =>
        cores[1].state.i_register = OpBefore.i_register

\* C15 as stated: the program counter of a running engine is even
C15_ProgramCounterEven ==
    cores[1].status = "alive" => cores[1].state.program_counter % 2 = 0

\* what the instruction `opcode`, executed in engine state s, makes of the
\* program counter in the state t it leaves: the jumps set it to the address
\* they name, every other instruction keeps its parity
ProgramCounterAfter(s, opcode, t) ==
    CASE opcode \div 4096 \in {1, 2} -> t.program_counter = OpNNN(opcode)
      [] opcode \div 4096 = 11 ->
            t.program_counter = s.v_registers[0] + OpNNN(opcode)
      [] opcode = 238 /\ s.call_stack # <<>> ->
            t.program_counter = s.call_stack[Len(s.call_stack)]
      [] OTHER -> t.program_counter % 2 = s.program_counter % 2

\* C15 amended: 1NNN and 2NNN set the program counter to NNN, BNNN to
\* V0 + NNN and 00EE to the address on top of the call stack, even or odd;
\* every other instruction leaves the parity of the program counter as it was
C15_OnlyJumpsChangeParity ==
    /\ (OpFirst /\ cores[1].status = "alive") =>
          ProgramCounterAfter(OpBefore, op.opcode, cores[1].state)
    /\ (op.again /\ cores[1].status = "alive") =>
          ProgramCounterAfter(OpMiddle, OpSecondOpcode, cores[1].state)

\* C15 witness: a jump to an odd address, and the instruction executed there
\* has left the program counter odd
C15_OddAfterJump ==
    /\ op.again
    /\ OpFamily = 1
    /\ cores[1].status = "alive"
    /\ OpMiddle.program_counter % 2 = 1
    /\ cores[1].state.program_counter = OpMiddle.program_counter + 2

\* C16: every memory access of the engine (the fetch at program_counter,
\* the reads of DXYN at I + row, the writes of FX33 and FX55, the reads of
\* FX65) uses an address inside the memory, so the thread never panics on
\* an index out of bounds; FX1E is left aside, which can panic on the
\* overflow of I instead
C16_MemoryAccessInRange ==
    \/ OpFamily = 15 /\ OpNN(op.opcode) = 30
    \/ cores[1].status # "panicked"

\* C17: the addresses 0x000..0x04F hold the bytes of the built-in font in
\* every state an engine reaches
C17_FontNeverChanges ==
    \A a \in 0..(Len(Font) - 1) :
        MemRead(cores[1].state.memory, a) = Font[a + 1]

(***************************************************************************)
(* Properties of frames.  A frame is plain when the instructions it is     *)
(* about to execute are neither jumps, calls, returns, skips, key waits    *)
(* nor erroring opcodes, and do not write to memory: 0NNN other than 00EE, *)
(* 6XNN, 7XNN, ANNN, FX07, FX15, FX18 and FX29.                            *)
(***************************************************************************)
PlainOpcode(opcode) ==
    \/ opcode \div 4096 = 0 /\ opcode # 238
    \/ opcode \div 4096 \in {6, 7, 10}
    \/ opcode \div 4096 = 15 /\ OpNN(opcode) \in {7, 21, 24, 41}

OpcodeAt(s, address) ==
    MemRead(s.memory, address) * 256 + MemRead(s.memory, address + 1)

PlainFrame(e) ==
    /\ e.state.program_counter + 2 * e.state.opcodes_per_frame <= MemSize
    /\ \A j \in 0..(e.state.opcodes_per_frame - 1) :
          PlainOpcode(OpcodeAt(e.state, e.state.program_counter + 2 * j))

\* the thread of engine i is about to execute a whole plain frame, and this
\* step executes it and takes the thread to its next iteration
PlainFrameStep(i) ==
    /\ cores[i].status = "alive"
    /\ cores[i].at = "frame"
    /\ cores[i].opcodes_left = cores[i].state.opcodes_per_frame
    /\ PlainFrame(cores[i])
    /\ ~should_exit(cores[i])
    /\ cores'[i].status = "alive"
    /\ cores'[i].at = "events"

\* C18: a fresh engine has current_frame = 0 and program_counter = 512;
\* every completed frame of k = opcodes_per_frame instructions none of which
\* is a jump, call, return, skip, key wait or erroring opcode adds 1 to
\* current_frame and 2 * k to program_counter; so an engine that has run
\* nothing but the zero-filled memory after 0x200 with the k it was created
\* with has program_counter = 512 + 2 * k * current_frame between frames
C18_FramesAdvanceProgramCounter ==
    /\ cores[1].state.current_frame = 0
    /\ cores[1].state.program_counter = RomStart
    /\ [][\A i \in Cores : PlainFrameStep(i) =>
            /\ cores'[i].state.current_frame = cores[i].state.current_frame + 1
            /\ cores'[i].state.program_counter =
                  cores[i].state.program_counter
                      + 2 * cores[i].state.opcodes_per_frame]_vars
    /\ [](\A i \in Cores :
            (/\ cores[i].status = "alive"
             /\ cores[i].at = "events"
             /\ cores[i].state.rom_name = None
             /\ cores[i].state.opcodes_per_frame = DefaultOpcodesPerFrame) =>
                cores[i].state.program_counter =
                    RomStart + 2 * DefaultOpcodesPerFrame * cores[i].state.current_frame)

\* C18 witness: two frames of 20 instructions have been completed by an
\* engine that was set running without a ROM
C18_TwoPlainFrames ==
    \E i \in Cores :
        /\ cores[i].status = "alive"
        /\ cores[i].state.running
        /\ cores[i].state.rom_name = None
        /\ cores[i].state.opcodes_per_frame = DefaultOpcodesPerFrame
        /\ cores[i].state.current_frame = 2
        /\ cores[i].state.program_counter = RomStart + 80

\* a plain frame none of whose instructions sets a timer
TimerFreeFrame(e) ==
    /\ PlainFrame(e)
    /\ \A j \in 0..(e.state.opcodes_per_frame - 1) :
          LET opcode == OpcodeAt(e.state, e.state.program_counter + 2 * j)
          IN  ~(opcode \div 4096 = 15 /\ OpNN(opcode) \in {21, 24})

\* a timer after one update
Decremented(timer) == IF timer > 0 THEN timer - 1 ELSE 0

\* the thread of engine i, idle but for a StepFrame command, is about to
\* execute the frame, and this step takes it through the whole frame to its
\* next iteration
SteppedFrameStep(i) ==
    /\ cores[i].status = "alive"
    /\ cores[i].at = "frame"
    /\ cores[i].step_frame
    /\ ~cores[i].running
    /\ cores[i].opcodes_left = cores[i].state.opcodes_per_frame
    /\ cores'[i].status = "alive"
    /\ cores'[i].at = "events"

\* the thread of engine i is between two iterations with nothing to do:
\* not running, no frame asked for, no command in the queue, no error and
\* no exit asked for
Idle(i) ==
    /\ cores[i].status = "alive"
    /\ cores[i].at = "events"
    /\ cores[i].events = <<>>
    /\ ~cores[i].state.running
    /\ ~cores[i].state.step_frame
    /\ ~should_exit(cores[i])

\* what the instructions and the frames work on
Machine(s) ==
    <<s.current_frame, s.program_counter, s.delay_timer, s.sound_timer,
      s.memory, s.v_registers, s.i_register, s.call_stack, s.image>>

\* C19: the frame of a StepFrame command applied to an idle engine executes
\* opcodes_per_frame instructions, adds 1 to current_frame and updates the
\* timers once, and leaves step_frame and running false; an idle engine
\* executes nothing and stays idle while no command arrives
C19_StepFrameRunsOneFrame ==
    /\ [][\A i \in Cores : SteppedFrameStep(i) =>
            /\ cores'[i].executed =
                  cores[i].executed + cores[i].state.opcodes_per_frame
            /\ cores'[i].state.current_frame = cores[i].state.current_frame + 1
            /\ TimerFreeFrame(cores[i]) =>
                  /\ cores'[i].state.delay_timer =
                        Decremented(cores[i].state.delay_timer)
                  /\ cores'[i].state.sound_timer =
                        Decremented(cores[i].state.sound_timer)
            /\ ~cores'[i].state.step_frame
            /\ ~cores'[i].state.running
            /\ cores'[i].events = <<>> => Idle(i)']_vars
    /\ [][\A i \in Cores : (Idle(i) /\ cores'[i].events = <<>>) =>
            /\ cores'[i].executed = cores[i].executed
            /\ Machine(cores'[i].state) = Machine(cores[i].state)
            /\ Idle(i)']_vars

\* C19 witness: one frame of timers.ch8 has been stepped and the engine is
\* idle again, with the delay timer updated once
C19_SteppedOnce ==
    \E i \in Cores :
        /\ Idle(i)
        /\ cores[i].state.rom_name = Some("timers.ch8")
        /\ cores[i].state.current_frame = 1
        /\ cores[i].executed = DefaultOpcodesPerFrame
        /\ cores[i].state.delay_timer = 1

\* C20: a completed frame whose instructions set no timer leaves each timer
\* one lower when it was non-zero and at 0 when it was 0; the first frame of
\* timers.ch8, whose instructions set the delay timer to 2 and the sound
\* timer to 1, ends with the timers at 1 and 0 (one update, after the
\* instructions); the timers stay within 0..255; and no step of a thread
\* that is outside a frame changes them
C20_TimersDecrementOncePerFrame ==
    /\ [][\A i \in Cores : (PlainFrameStep(i) /\ TimerFreeFrame(cores[i])) =>
            /\ cores'[i].state.delay_timer = Decremented(cores[i].state.delay_timer)
            /\ cores'[i].state.sound_timer = Decremented(cores[i].state.sound_timer)]_vars
    /\ [][\A i \in Cores :
            (/\ PlainFrameStep(i)
             /\ cores[i].state.rom_name = Some("timers.ch8")
             /\ cores[i].state.program_counter = RomStart
             /\ cores[i].state.opcodes_per_frame >= 4) =>
                /\ cores'[i].state.delay_timer = 1
                /\ cores'[i].state.sound_timer = 0]_vars
    /\ [](\A i \in Cores :
            /\ cores[i].state.delay_timer \in 0..255
            /\ cores[i].state.sound_timer \in 0..255)
    /\ [][\A i \in Cores : cores[i].at \notin {"frame", "wait_key"} =>
            /\ cores'[i].state.delay_timer = cores[i].state.delay_timer
            /\ cores'[i].state.sound_timer = cores[i].state.sound_timer]_vars

\* C20 witness: two frames of timers.ch8 have been completed; the delay
\* timer went from 2 to 0 and the sound timer from 1 to 0, where it stayed
C20_TimersRanOut ==
    \E i \in Cores :
        /\ cores[i].status = "alive"
        /\ cores[i].state.rom_name = Some("timers.ch8")
        /\ cores[i].state.current_frame = 2
        /\ cores[i].state.v_registers[1] = 1
        /\ cores[i].state.delay_timer = 0
        /\ cores[i].state.sound_timer = 0

(***************************************************************************)
(* Properties of the arithmetic instructions 8XYN, stated of OpSpec.       *)
(***************************************************************************)
\* the first instruction was 8XYN with last nibble n; OpVX and OpVY are the
\* registers it names, as they were before it
OpArithmetic(n) == OpFirst /\ OpFamily = 8 /\ OpN(op.opcode) = n
OpVX == OpBefore.v_registers[OpX(op.opcode)]
OpVY == OpBefore.v_registers[OpY(op.opcode)]
OpAfterV(r) == cores[1].state.v_registers[r]

\* C21: 8XY4 stores (VX + VY) mod 256 in VX and VF = 1 iff VX + VY > 255;
\* 8XY5 stores (VX - VY) mod 256 and 8XY7 (VY - VX) mod 256 in VX, with
\* VF = 1 iff there was no borrow; with X = F the register holds the flag
C21_AddSubtractSetFlag ==
    /\ OpArithmetic(4) =>
          /\ OpAfterV(15) = IF OpVX + OpVY > 255 THEN 1 ELSE 0
          /\ OpX(op.opcode) # 15 => OpAfterV(OpX(op.opcode)) = (OpVX + OpVY) % 256
    /\ OpArithmetic(5) =>
          /\ OpAfterV(15) = IF OpVX >= OpVY THEN 1 ELSE 0
          /\ OpX(op.opcode) # 15 =>
                OpAfterV(OpX(op.opcode)) = (OpVX - OpVY + 256) % 256
    /\ OpArithmetic(7) =>
          /\ OpAfterV(15) = IF OpVY >= OpVX THEN 1 ELSE 0
          /\ OpX(op.opcode) # 15 =>
                OpAfterV(OpX(op.opcode)) = (OpVY - OpVX + 256) % 256

\* C21 witness: 8124 has added V2 = 1 to V1 = 255, with a carry
C21_AddedWithCarry ==
    /\ OpArithmetic(4)
    /\ OpX(op.opcode) = 1
    /\ OpVX = 255
    /\ OpVY = 1
    /\ OpAfterV(1) = 0
    /\ OpAfterV(15) = 1

\* bit k of a byte
Bit(v, k) == (v \div Pow2(k)) % 2

\* C22: 8XY1, 8XY2 and 8XY3 leave VF = 0 and, for X # F, store in VX the
\* byte whose every bit is the OR, the AND and the XOR of the bits of VX
\* and VY
C22_LogicResetsFlag ==
    \A n \in {1, 2, 3} :
        OpArithmetic(n) =>
            /\ OpAfterV(15) = 0
            /\ OpX(op.opcode) # 15 =>
                  /\ OpAfterV(OpX(op.opcode)) \in 0..255
                  /\ \A k \in 0..7 :
                        Bit(OpAfterV(OpX(op.opcode)), k) =
                            CASE n = 1 -> IF Bit(OpVX, k) = 1 \/ Bit(OpVY, k) = 1
                                          THEN 1 ELSE 0
                              [] n = 2 -> IF Bit(OpVX, k) = 1 /\ Bit(OpVY, k) = 1
                                          THEN 1 ELSE 0
                              [] n = 3 -> IF Bit(OpVX, k) # Bit(OpVY, k)
                                          THEN 1 ELSE 0

\* C22 witness: 8121 has stored 0b1010 OR 0b0101 in V1 and reset a VF that
\* was not 0
C22_OrResetFlag ==
    /\ OpArithmetic(1)
    /\ OpX(op.opcode) = 1
    /\ OpY(op.opcode) = 2
    /\ OpVX = 10
    /\ OpVY = 5
    /\ OpBefore.v_registers[15] = 255
    /\ OpAfterV(1) = 15
    /\ OpAfterV(15) = 0

\* C23: 8XY6 sets VF to the lowest bit of VX and VX to VX >> 1, 8XYE sets
\* VF to the highest bit of VX and VX to (VX << 1) mod 256; VY is left as
\* it was and has no part in the result; with X = F the register holds the
\* bit shifted out
C23_ShiftKeepsBitShiftedOut ==
    /\ OpArithmetic(6) =>
          /\ OpAfterV(15) = OpVX % 2
          /\ OpX(op.opcode) # 15 => OpAfterV(OpX(op.opcode)) = OpVX \div 2
    /\ OpArithmetic(14) =>
          /\ OpAfterV(15) = OpVX \div 128
          /\ OpX(op.opcode) # 15 => OpAfterV(OpX(op.opcode)) = (OpVX * 2) % 256
    /\ (OpArithmetic(6) \/ OpArithmetic(14)) =>
          \A r \in 0..14 :
              r # OpX(op.opcode) => OpAfterV(r) = OpBefore.v_registers[r]

\* C23 witness: 8F2E has shifted VF = 129 and left the bit shifted out in VF
C23_ShiftedFlagRegister ==
    /\ OpArithmetic(14)
    /\ OpX(op.opcode) = 15
    /\ OpVX = 129
    /\ OpVY = 5
    /\ OpAfterV(15) = 1
    /\ OpAfterV(2) = 5

\* C24: 2NNN pushes the program counter the fetch has advanced (the address
\* of the call + 2) and jumps to NNN; when the instruction at NNN is 00EE,
\* the return leaves the program counter at the address of the call + 2 and
\* the call stack as it was before the call
C24_CallThenReturn ==
    /\ (OpFirst /\ OpFamily = 2) =>
          /\ cores[1].state.program_counter = OpNNN(op.opcode)
          /\ cores[1].state.call_stack =
                Append(OpBefore.call_stack, OpBefore.program_counter + 2)
    /\ (op.again /\ OpFamily = 2 /\ OpSecondOpcode = 238) =>
          /\ cores[1].status = "alive"
          /\ cores[1].state.error = None
          /\ cores[1].state.program_counter = OpBefore.program_counter + 2
          /\ cores[1].state.call_stack = OpBefore.call_stack

\* C24 witness: a call at 0x200 with an empty stack, and its return
C24_ReturnedFromCall ==
    /\ op.again
    /\ OpFamily = 2
    /\ OpSecondOpcode = 238
    /\ OpBefore.program_counter = RomStart
    /\ OpBefore.call_stack = <<>>
    /\ OpMiddle.call_stack = <<514>>
    /\ cores[1].state.program_counter = 514
    /\ cores[1].state.call_stack = <<>>

(***************************************************************************)
(* Properties of the timing of Core::run, stated of TimingSpec.            *)
(***************************************************************************)
\* sleep_needed_millis of the last iteration
ClockBudget == MinFrameTime - clock.elapsed + clock.carried

\* C25: an iteration whose budget (target interval - elapsed + carried
\* error) is negative does not sleep and resets the carried error to 0; a
\* budget that is not negative is slept, and the carried error becomes the
\* budget minus the time slept
C25_SleepErrorCarried ==
    clock.iterations > 0 =>
        IF ClockBudget < 0
        THEN /\ clock.slept = 0
             /\ cores[1].sleep_error_millis = 0
        ELSE /\ clock.slept >= 0
             /\ ClockBudget = 0 => clock.slept = 0
             /\ cores[1].sleep_error_millis = ClockBudget - clock.slept

\* C25 witness: a sleep that took 45 units too long, carried into the next
\* iteration, which slept as much less
C25_OversleptThenCorrected ==
    /\ clock.iterations = 2
    /\ clock.carried = 0 - 45
    /\ clock.elapsed = 60
    /\ clock.slept = MinFrameTime - 60 - 45
    /\ cores[1].sleep_error_millis = 0

\* the absolute value of a time
Magnitude(t) == IF t < 0 THEN 0 - t ELSE t

\* C26: after n iterations of a fresh engine whose sleep budgets were all
\* positive, whatever the sleeps took, the sum of the lengths of the
\* iterations differs from n target intervals by no more than the carried
\* sleep error
C26_DriftBoundedBySleepError ==
    clock.positive =>
        Magnitude(clock.total - clock.iterations * MinFrameTime)
            <= Magnitude(cores[1].sleep_error_millis)

\* C26 witness: three iterations with positive budgets, the first slept too
\* long and the last too short, and their sum is off by the carried error
C26_ThreeIterationsWithJitter ==
    /\ clock.iterations = 3
    /\ clock.positive
    /\ clock.carried # 0
    /\ cores[1].sleep_error_millis = 30
    /\ clock.total = 3 * MinFrameTime - 30

\* the snapshots the controller can read from engine i: the one its
\* receiver holds and the one the last update left for it
Snapshots(i) ==
    {cores[i].slot[k] : k \in DOMAIN cores[i].slot}
        \cup {cores[i].latest[k] : k \in DOMAIN cores[i].latest}

\* C27: every snapshot the controller can read in which running is false
\* has actual_frame_time, frame_time_with_sleep and fps at zero
C27_IdleSnapshotHasNoTimes ==
    \A i \in Cores : \A snapshot \in Snapshots(i) :
        ~snapshot.running =>
            /\ snapshot.actual_frame_time = 0
            /\ snapshot.frame_time_with_sleep = 0
            /\ snapshot.fps = 0

\* C28: opcodes_per_frame is at least 1 in every state of every engine,
\* whatever ChangeOpcodesPerFrame commands it received
C28_OpcodesPerFramePositive ==
    \A i \in Cores : cores[i].state.opcodes_per_frame >= 1

(***************************************************************************)
(* Properties of the command drain (handle_events), stated of Spec.        *)
(***************************************************************************)
\* this step sends a command to engine i
SendStep(i) == Len(cores'[i].events) = Len(cores[i].events) + 1

\* this step is a turn of the loop of handle_events of engine i
ApplyStep(i) ==
    /\ cores[i].at = "events"
    /\ Len(cores'[i].events) = Len(cores[i].events) - 1

\* engine i is at the end of a drain (try_recv finds the queue empty), and
\* this step sends it nothing; `handled` tells whether the drain applied a
\* command.  The step is the thread going on, or the controller reading or
\* doing something else.
DrainEndStep(i, handled) ==
    /\ cores[i].status = "alive"
    /\ cores[i].at = "events"
    /\ cores[i].events = <<>>
    /\ cores'[i].events = <<>>
    /\ cores[i].event_handled = handled

\* the thread of engine i left handle_events in this step: it is in the
\* frame, or it ended, or it is at the top of the next iteration
ThreadWentOn(i) ==
    \/ cores'[i].status # "alive"
    \/ cores'[i].at # "events"
    \/ ~cores'[i].event_handled

\* what the command `event` has set in the state s of the engine
Applied(event, s) ==
    CASE event.type = "ChangeRunning" -> s.running = event.running
      [] event.type = "ChangeOpcodesPerFrame" ->
            s.opcodes_per_frame = event.opcodes_per_frame
      [] event.type = "StepFrame" -> s.step_frame
      [] event.type = "Exit" -> s.exit_requested /\ ~s.running
      [] OTHER -> TRUE

\* C29: a command is queued behind those sent before it and the drain
\* applies the oldest command first, one after the other; the end of a
\* drain that applied a command publishes the state as the drain left it,
\* and the end of a drain that applied none publishes nothing; no
\* instruction is executed before the drain has ended
C29_DrainAppliesInOrderThenPublishes ==
    /\ [][\A i \in Cores : SendStep(i) =>
            SubSeq(cores'[i].events, 1, Len(cores[i].events)) = cores[i].events]_vars
    /\ [][\A i \in Cores : ApplyStep(i) =>
            /\ cores'[i].events = Tail(cores[i].events)
            /\ Applied(Head(cores[i].events), cores'[i].state)
            /\ cores'[i].status = "alive" => cores'[i].event_handled
            /\ cores'[i].executed = cores[i].executed]_vars
    /\ [][\A i \in Cores : (DrainEndStep(i, TRUE) /\ ThreadWentOn(i)) =>
            /\ cores'[i].slot = Some(cores[i].state)
            /\ cores'[i].published = cores[i].state
            /\ cores'[i].executed = cores[i].executed]_vars
    /\ [][\A i \in Cores : DrainEndStep(i, FALSE) =>
            /\ cores'[i].slot \in {cores[i].slot, None}
            /\ cores'[i].published = cores[i].published
            /\ cores'[i].executed = cores[i].executed]_vars

\* C29 witness: a drain has applied ChangeOpcodesPerFrame(2) and
\* ChangeRunning(true) and published the state it left; the frame of the
\* iteration has not begun
C29_DrainPublishedBeforeFrame ==
    \E i \in Cores :
        /\ cores[i].status = "alive"
        /\ cores[i].at = "frame"
        /\ cores[i].executed = 0
        /\ cores[i].state.opcodes_per_frame = 2
        /\ cores[i].state.running
        /\ cores[i].slot = Some(cores[i].state)

(***************************************************************************)
(* An instruction of a frame that sets error ends the frame and the        *)
(* thread.                                                                 *)
(***************************************************************************)
\* the error an instruction reports
FrameError(s) ==
    /\ IsSome(s.error)
    /\ Unwrap(s.error).kind \in {"InvalidOpcode", "InvalidReturn"}

\* an instruction executed in this step of engine i set error
ErrorStep(i) ==
    /\ cores[i].state.error = None
    /\ FrameError(cores'[i].state)

\* the instructions from address `first` up to, not including, address
\* `last` are plain, `timers` telling whether they may set a timer
PlainUpTo(s, first, last, timers) ==
    /\ first <= last
    /\ (last - first) % 2 = 0
    /\ \A j \in 0..((last - first) \div 2 - 1) :
          LET opcode == OpcodeAt(s, first + 2 * j)
          IN  /\ PlainOpcode(opcode)
              /\ timers \/ ~(opcode \div 4096 = 15 /\ OpNN(opcode) \in {21, 24})

\* C30: a step in which an instruction sets error (InvalidOpcode or
\* InvalidReturn) ends the thread with no instruction executed after the
\* erroring one (after a run of plain instructions the number executed is
\* the position of the erroring one, and invalid.ch8 never executes its
\* 6105), leaves current_frame as it was and the timers undecremented (as
\* they were when no instruction of the frame set them, and at the 3 its
\* F115 set when invalid.ch8 ran from its start), and leaves with the
\* receiver a snapshot that
\* shows the error; once error is set the thread is not alive and no step
\* executes an instruction, counts a frame or changes a timer
C30_ErrorEndsFrameAndThread ==
    /\ [][\A i \in Cores : ErrorStep(i) =>
            LET before == cores[i].state
                after == cores'[i].state
                address == Unwrap(after.error).address
            IN  /\ cores'[i].status = "exited"
                /\ cores'[i].executed > cores[i].executed
                /\ PlainUpTo(before, before.program_counter, address, TRUE) =>
                      /\ cores'[i].executed = cores[i].executed
                            + (address - before.program_counter) \div 2 + 1
                      /\ after.program_counter = address + 2
                /\ after.current_frame = before.current_frame
                /\ PlainUpTo(before, before.program_counter, address, FALSE) =>
                      /\ after.delay_timer = before.delay_timer
                      /\ after.sound_timer = before.sound_timer
                /\ after.rom_name = Some("invalid.ch8") =>
                      /\ after.v_registers[1] # 5
                      /\ before.program_counter = RomStart =>
                            /\ after.v_registers[1] = 3
                            /\ after.delay_timer = 3
                /\ IsSome(cores'[i].slot)
                /\ Unwrap(cores'[i].slot).error = after.error
                /\ cores'[i].published.error = after.error]_vars
    /\ [][\A i \in Cores : FrameError(cores[i].state) =>
            /\ cores'[i].executed = cores[i].executed
            /\ Machine(cores'[i].state) = Machine(cores[i].state)
            /\ cores'[i].state.error = cores[i].state.error
            /\ cores'[i].status = cores[i].status]_vars
    /\ [](\A i \in Cores : FrameError(cores[i].state) =>
            cores[i].status # "alive")

\* C30 witness: the first frame of invalid.ch8, of 20 instructions, met the
\* invalid opcode as its third instruction: the thread ended with three
\* instructions executed and 6105 not among them, the delay timer at the 3
\* that F115 set, no frame counted, and the error left with the receiver
C30_ThirdInstructionWasInvalid ==
    \E i \in Cores :
        /\ cores[i].status = "exited"
        /\ cores[i].state.error =
              Some([kind |-> "InvalidOpcode", opcode |-> 32776,
                    address |-> RomStart + 4])
        /\ cores[i].state.opcodes_per_frame = DefaultOpcodesPerFrame
        /\ cores[i].executed = 3
        /\ cores[i].state.v_registers[1] = 3
        /\ cores[i].state.delay_timer = 3
        /\ cores[i].state.current_frame = 0
        /\ cores[i].slot # None
        /\ Unwrap(cores[i].slot).error = cores[i].state.error

(***************************************************************************)
(* The collision flag of DXYN.                                             *)
(***************************************************************************)
\* the pixels on the screen that a set bit of the sprite of DXYN `opcode`
\* lands on in engine state s
VisibleSprite(s, opcode) ==
    { <<(s.v_registers[OpX(opcode)] % BASE_WIDTH) + rc[2],
        (s.v_registers[OpY(opcode)] % BASE_HEIGHT) + rc[1]>> :
          rc \in { p \in (0..(OpN(opcode) - 1)) \X (0..7) :
                    /\ (s.v_registers[OpX(opcode)] % BASE_WIDTH) + p[2] < BASE_WIDTH
                    /\ (s.v_registers[OpY(opcode)] % BASE_HEIGHT) + p[1] < BASE_HEIGHT
                    /\ (MemRead(s.memory, s.i_register + p[1])
                            \div Pow2(7 - p[2])) % 2 = 1 } }

\* C31: a DXYN that has run to its end leaves VF = 1 exactly when a pixel
\* that was on before it is off after it, which is exactly when a set bit
\* of the sprite landed on a pixel of the screen that was on; so N = 0, or
\* a sprite with no set bit on the screen, leaves VF = 0.  VF is 0 or 1
\* also when VX or VY is VF itself.
C31_CollisionFlag ==
    (OpFirst /\ OpFamily = 13 /\ cores[1].status = "alive") =>
        LET hit == VisibleSprite(OpBefore, op.opcode) \cap OpBefore.image
        IN  /\ cores[1].state.v_registers[15] =
                  IF OpBefore.image \ cores[1].state.image # {} THEN 1 ELSE 0
            /\ OpBefore.image \ cores[1].state.image = hit
            /\ (OpN(op.opcode) = 0 \/ VisibleSprite(OpBefore, op.opcode) = {}) =>
                  cores[1].state.v_registers[15] = 0

\* C31 witness: DF21 with VF = 0 before drew the first row of the glyph at
\* I = 0 (0x60) at (0, 0) over the lit pixels (0, 0) and (1, 0): the pixel
\* (1, 0), under a set bit, went off and VF is 1
C31_CollisionInFirstRow ==
    /\ OpFirst
    /\ op.opcode = 57121
    /\ cores[1].status = "alive"
    /\ OpBefore.v_registers[15] = 0
    /\ OpBefore.i_register = 0
    /\ <<1, 0>> \in OpBefore.image
    /\ <<1, 0>> \notin cores[1].state.image
    /\ <<0, 0>> \in cores[1].state.image
    /\ cores[1].state.v_registers[15] = 1

(***************************************************************************)
(* The key skips EX9E and EXA1.                                            *)
(***************************************************************************)
\* C32: EX9E adds 2 more to the program counter exactly when VX is one of
\* the keys 0..F and that key is down in the key input, EXA1 exactly when
\* it is not; with VX above 0xF EX9E does not skip and EXA1 skips; neither
\* sets error nor changes anything but the program counter
C32_KeySkips ==
    (OpFirst /\ OpFamily = 14 /\ OpNN(op.opcode) \in {158, 161}) =>
        LET key == OpBefore.v_registers[OpX(op.opcode)]
            down == \E k \in input.keys_down \cap 0..15 : k = key
            skip == IF OpNN(op.opcode) = 158 THEN down ELSE ~down
        IN  /\ cores[1].status = "alive"
            /\ cores[1].state.error = None
            /\ cores[1].state.program_counter =
                  OpBefore.program_counter + (IF skip THEN 4 ELSE 2)
            /\ key > 15 => (skip <=> OpNN(op.opcode) = 161)
            /\ cores[1].state =
                  [OpBefore EXCEPT !.program_counter = cores[1].state.program_counter]

\* C32 witness: E19E with V1 = 20 while the keys 2, 4 and 14 are down did
\* not skip (key 20 is no key, although 20 mod 16 is down)
C32_KeyAboveFNotDown ==
    /\ OpFirst
    /\ op.opcode = 57758
    /\ OpBefore.v_registers[1] = 20
    /\ input.keys_down = {2, 4, 14}
    /\ cores[1].state.program_counter = OpBefore.program_counter + 2
    /\ cores[1].state.error = None

(***************************************************************************)
(* Idle iterations of Core::run.                                           *)
(***************************************************************************)
\* C33: an iteration of an engine that is neither running nor stepping and
\* whose queue is empty executes no instruction, leaves current_frame, the
\* program counter, the timers, the memory, the registers, the call stack
\* and the image as they were, and publishes nothing: the slot of the
\* receiver and the last published snapshot stay as they were
C33_IdleIterationChangesNothing ==
    [][(/\ ~cores[1].state.running
        /\ ~cores[1].state.step_frame
        /\ cores[1].events = <<>>
        /\ clock'.iterations = clock.iterations + 1) =>
            /\ cores'[1].executed = cores[1].executed
            /\ Machine(cores'[1].state) = Machine(cores[1].state)
            /\ cores'[1].slot = cores[1].slot
            /\ cores'[1].latest = cores[1].latest
            /\ cores'[1].published = cores[1].published
            /\ cores'[1].status = "alive"
            /\ cores'[1].at = "events"]_vars

\* C33 witness: three idle iterations have gone by, the last one slept; no
\* instruction was executed and nothing was left for the receiver
C33_ThreeIdleIterations ==
    /\ ~cores[1].state.running
    /\ clock.iterations = MaxIterations
    /\ clock.slept > 0
    /\ cores[1].executed = 0
    /\ cores[1].slot = None

(***************************************************************************)
(* Gui::reset_core and the speed of the emulation.                         *)
(***************************************************************************)
\* the value of the last ChangeOpcodesPerFrame command sent to engine e:
\* that of the last one still in its queue or, when none is queued, the
\* value the engine holds (the default until one is applied)
LastOpcodesPerFrameSent(e) ==
    LET sent == SelectSeq(e.events, LAMBDA c : c.type = "ChangeOpcodesPerFrame")
    IN  IF sent = <<>> THEN e.state.opcodes_per_frame
        ELSE sent[Len(sent)].opcodes_per_frame

\* C34: when reset_core creates the new engine, the first command it sends
\* it is ChangeOpcodesPerFrame with the value of the last
\* ChangeOpcodesPerFrame command sent to the old engine (the default 20 if
\* none was sent)
C34_ResetKeepsOpcodesPerFrame ==
    [][(gui.at = "reset_sleep" /\ gui'.at = "sending") =>
            Head(gui'.pending) =
                [type |-> "ChangeOpcodesPerFrame",
                 opcodes_per_frame |-> LastOpcodesPerFrameSent(cores[Len(cores)])]]_vars

(***************************************************************************)
(* What an invalid opcode leaves behind.                                   *)
(***************************************************************************)
\* C35: an instruction that sets error to InvalidOpcode leaves the state as
\* it was but for error and the program counter, which is 2 past the
\* address of the instruction: no skip is applied
C35_InvalidOpcodeOnlyAdvances ==
    (/\ OpFirst
     /\ IsSome(cores[1].state.error)
     /\ Unwrap(cores[1].state.error).kind = "InvalidOpcode") =>
        cores[1].state =
            [OpBefore EXCEPT !.program_counter = OpBefore.program_counter + 2,
                             !.error = cores[1].state.error]

(***************************************************************************)
(* After Exit.                                                             *)
(***************************************************************************)
\* C36: once the drain has applied Exit (exit_requested is set), no step
\* executes an instruction of the engine, and no step other than the
\* application of a LoadRom command changes its current_frame, program
\* counter, timers, memory, registers, call stack or image
C36_NothingRunsAfterExit ==
    [][\A i \in Cores : cores[i].state.exit_requested =>
            /\ cores'[i].executed = cores[i].executed
            /\ ~(ApplyStep(i) /\ Head(cores[i].events).type = "LoadRom") =>
                  Machine(cores'[i].state) = Machine(cores[i].state)]_vars

(***************************************************************************)
(* What a successful LoadRom leaves alone.                                 *)
(***************************************************************************)
\* C37: when the engine applies LoadRom of a ROM of len <= 3584 bytes, the
\* state afterwards differs from the state before in nothing but rom_name,
\* rom_size and memory, and every byte of memory outside 512 .. 512 + len
\* is as it was; nothing is executed
C37_LoadRomChangesOnlyRomRange ==
    [][\A i \in Cores : \A path \in Paths :
          (LoadRomStep(i, path) /\ RomFits(path)) =>
              LET len == Len(Unwrap(fs_read(path)))
              IN  /\ cores'[i].state =
                        [cores[i].state EXCEPT
                            !.rom_name = Some(file_name(path)),
                            !.rom_size = Some(len),
                            !.memory = cores'[i].state.memory]
                  /\ \A a \in (0..(MemSize - 1)) \ (RomStart..(RomStart + len - 1)) :
                        MemRead(cores'[i].state.memory, a)
                            = MemRead(cores[i].state.memory, a)
                  /\ cores'[i].executed = cores[i].executed]_vars

\* C37 witness: timers.ch8 (8 bytes) was loaded over full.ch8 (3584 bytes):
\* the last byte of full.ch8 is still at the end of the memory and its
\* zeros follow the new ROM
C37_ShortRomOverLongRom ==
    \E i \in Cores :
        /\ cores[i].state.rom_name = Some("timers.ch8")
        /\ cores[i].state.rom_size = Some(8)
        /\ MemoryHolds(cores[i].state.memory, RomStart, TimersRom)
        /\ MemRead(cores[i].state.memory, MemSize - 1) = FullRom[Len(FullRom)]
        /\ cores[i].state.error = None

(***************************************************************************)
(* The controller starts no engine before it sent it a ROM.                *)
(***************************************************************************)
\* a LoadRom command has been applied to engine e: it left the name of the
\* ROM, or the error of a file that could not be read
LoadRomApplied(e) ==
    \/ IsSome(e.state.rom_name)
    \/ LoadFailed(e)

\* C38: under the controller of gui.rs an engine has executed an
\* instruction, is in a frame, or has running or step_frame set, only after
\* a LoadRom command was applied to it
C38_NoInstructionBeforeLoadRom ==
    \A i \in Cores :
        (\/ cores[i].executed > 0
         \/ cores[i].at \in {"frame", "wait_key"}
         \/ cores[i].state.running
         \/ cores[i].state.step_frame) => LoadRomApplied(cores[i])

\* C38 witness: the engine a reset created was sent ChangeOpcodesPerFrame,
\* LoadRom and ChangeRunning(true), and has executed instructions of the ROM
C38_SecondEngineRanItsRom ==
    /\ Len(cores) = 2
    /\ cores[2].executed > 0
    /\ IsSome(cores[2].state.rom_name)
    /\ cores[2].state.error = None

(***************************************************************************)
(* StepFrame requests are a flag, not a count.                             *)
(***************************************************************************)
\* this step applies a StepFrame command to engine i
StepFrameApplied(i) ==
    /\ ApplyStep(i)
    /\ Head(cores[i].events).type = "StepFrame"
    /\ cores'[i].status = "alive"

\* C39: applying StepFrame sets the flag step_frame and changes nothing
\* else, so a second StepFrame of the same drain leaves the state as the
\* first one left it; the thread enters a frame only with running or
\* step_frame set and clears step_frame as it does, whether or not running
\* is set; the flag stays clear through the frame, so the frame leaves no
\* request behind, and an engine with running and step_frame clear and an
\* empty queue executes nothing
C39_StepFrameDoesNotAccumulate ==
    /\ [][\A i \in Cores : StepFrameApplied(i) =>
            /\ cores'[i].state = [cores[i].state EXCEPT !.step_frame = TRUE]
            /\ cores[i].state.step_frame => cores'[i].state = cores[i].state]_vars
    /\ [][\A i \in Cores :
            (cores[i].at = "events" /\ cores'[i].at = "frame") =>
                /\ cores[i].state.running \/ cores[i].state.step_frame
                /\ cores[i].events = <<>>
                /\ ~cores'[i].state.step_frame
                /\ cores'[i].executed = cores[i].executed]_vars
    /\ [](\A i \in Cores :
            cores[i].at \in {"frame", "wait_key"} => ~cores[i].state.step_frame)
    /\ [][\A i \in Cores :
            (/\ cores[i].at \in {"frame", "wait_key"}
             /\ cores'[i].status = "alive"
             /\ cores'[i].at = "events") =>
                /\ ~cores'[i].state.step_frame
                /\ cores'[i].state.current_frame = cores[i].state.current_frame + 1]_vars
    /\ [][\A i \in Cores :
            (/\ cores[i].at = "events"
             /\ cores[i].events = <<>>
             /\ cores'[i].events = <<>>
             /\ ~cores[i].state.running
             /\ ~cores[i].state.step_frame) =>
                /\ cores'[i].executed = cores[i].executed
                /\ cores'[i].at \notin {"frame", "wait_key"}]_vars

\* C39 witness: a drain applied ChangeRunning(true) and StepFrame; the
\* thread is in the frame of that iteration, which it entered with the
\* request (the local step_frame) and with running set, and the flag is
\* clear again
C39_SteppedWhileRunning ==
    \E i \in Cores :
        /\ cores[i].status = "alive"
        /\ cores[i].at = "frame"
        /\ cores[i].running
        /\ cores[i].step_frame
        /\ cores[i].state.running
        /\ ~cores[i].state.step_frame
        /\ cores[i].executed = 0

=============================================================================
